---- MODULE Spec2Model ----
(***************************************************************************)
(* A model of the ClaudeTalk hub.  Part I models one Room with its clients *)
(* (internal/server/room.go, internal/server/websocket.go): the bounded    *)
(* log, the fan-out of AddMessage, the two pumps of every Client and the   *)
(* spawn dispatch the writer does.  Part II models the agent-session       *)
(* manager and the queued re-spawn protocol built on it                    *)
(* (internal/runner/session.go, internal/cli/web.go,                       *)
(* internal/server/server.go).                                             *)
(***************************************************************************)
EXTENDS Integers, Sequences, FiniteSets, TLC

(***************************************************************************)
(* Bounds of the model.                                                    *)
(***************************************************************************)
\* number of send requests (HTTP or stream) the environment posts
MaxPosts == 1
\* number of send requests posted in the log workload
MaxLogPosts == 2
\* largest max_history the hub is configured with (0 selects the default)
MaxCfgHistory == 1
\* capacity of Client.send in the model (256 in websocket.go:210)
SendCap == 2
\* capacity of Client.rawSend in the model (64 in websocket.go:211)
RawSendCap == 2
\* concurrent callers of Room.AddMessage
MaxCallers == 2
\* goroutines running Runner.Spawn that are ever launched
MaxTurns == 3
\* spawn signals that ever arrive at a trySpawn
MaxSignals == 3
\* hostHookState objects that SpawnClaude ever makes
MaxHookStates == 2
\* send requests posted on one thread
MaxThreadPosts == 2
\* send requests posted while the queues are not drained
MaxDropPosts == 3
\* send requests posted while readers ask
MaxReadPosts == 3
\* posts of the group workload
MaxGroupPosts == 3
\* posts of the hook workload
MaxHookPosts == 1
\* posts of the mode workload
MaxModePosts == 1
\* send requests the hub accepts in the hub workload
MaxHubPosts == 2
\* send requests the hub accepts in the query workload
MaxQueryPosts == 1
\* the largest `after` a reader asks for (the smallest is -1)
MaxAfter == 4
\* the largest `limit` or `n` a reader asks for (the smallest is -1)
MaxLimit == 3
\* posts of the teardown workload
MaxTearPosts == 1
\* calls of Hub.GetOrCreateRoom and Hub.GetRoom that are ever made
MaxLookups == 3
\* goroutines running Spawner.Spawn that one daemon ever launches
MaxSpawns == 3
\* the largest --max-concurrent a daemon is started with (the smallest is -1)
MaxCfgConcurrent == 2

(***************************************************************************)
(* Program constants.                                                      *)
(***************************************************************************)
DefaultMaxHistory == 1000
ContextLen == 30
\* server.go:276 and 307: the limit and the n of a query that names none
DefaultLimit == 100
DefaultLatest == 10

None == 0

(***************************************************************************)
(* The connections the environment opens: GET /ws/R?sender=..&mode=..      *)
(* &role=.. (ServeWS defaults an absent mode to legacy and an absent role  *)
(* to user).                                                               *)
(***************************************************************************)
ClientIds == {1, 2, 3, 4, 5, 6, 7}
Callers == 1..MaxCallers

\* 4 is a watcher that connects under the name of the co-resident agent, 5
\* a second connection (another browser tab) of the user A, 6 a connection
\* of B with role=daemon and no mode in its query, 7 a browser opened under
\* the name of the co-resident agent
ServeWSParams(c) ==
    CASE c = 1 -> [sender |-> "B", mode |-> "daemon", role |-> "daemon"]
      [] c = 2 -> [sender |-> "A", mode |-> "legacy", role |-> "user"]
      [] c = 3 -> [sender |-> "C", mode |-> "daemon", role |-> "daemon"]
      [] c = 4 -> [sender |-> "H", mode |-> "daemon", role |-> "daemon"]
      [] c = 6 -> [sender |-> "B", mode |-> "legacy", role |-> "daemon"]
      [] c = 7 -> [sender |-> "H", mode |-> "legacy", role |-> "user"]
      [] OTHER -> [sender |-> "A", mode |-> "legacy", role |-> "user"]

\* the room of every request ("" is a request without a room name)
RoomName == "R"

\* display names; "H" is an agent co-resident with the hub (a spawn hook)
Names == {"A", "B", "C", "H"}
HookNames == {"H"}
ConvIds == {"", "g1"}

\* the metadata of the send requests the environment posts
\* (to, conv_id, expecting_reply, private; an absent key reads as "")
Metadata(to, conv, er, private) ==
    [to |-> to, conv |-> conv, er |-> er, private |-> private]

Metadatas ==
    { Metadata("", "", "", ""),
      Metadata("B", "", "true", ""),
      Metadata("B", "g1", "true", ""),
      Metadata("H", "g1", "true", ""),
      \* not directed: no recipient, a finished conversation (done = true),
      \* no expecting_reply key
      Metadata("", "g1", "true", ""),
      Metadata("B", "g1", "false", ""),
      Metadata("H", "g1", "", ""),
      \* a whisper
      Metadata("B", "", "", "true") }
NoMetadata == Metadata("", "", "", "")
NoEnvelope == [seq |-> 0, sender |-> "", type |-> "", to |-> "", conv |-> "",
               er |-> "", private |-> ""]
\* nothing has been read yet
NoAnswer == [op |-> "none", who |-> "", after |-> 0, limit |-> 0, at |-> 0,
             out |-> <<>>]
\* a caller slot that is not inside AddMessage
NoCall == [env |-> NoEnvelope, todo |-> {}, starts |-> None, active |-> FALSE]

\* The session manager of one process: the rooms, senders and conversation
\* threads that turns are requested for ("" is the user-initiated thread).
SessRooms == {"R"}
\* the rooms of the hub that SpawnClaude and StopClaude are called for; the
\* log, the clients and the participants are those of room R, of the other
\* room only the hook registry is kept
HostRooms == {"R", "Q"}
SessSenders == {"U"}
\* the users of the stop workload: U and a second user of the same room
StopSenders == {"U", "V"}
SessConvs == {"", "t1", "t2"}
TurnIds == 1..MaxTurns
SigIds == 1..MaxSignals

\* sessionKey{Room, Sender, ConvID}
sessionKey(room, sender, convID) == <<room, sender, convID>>

Keys == {sessionKey(r, u, v) : r \in HostRooms, u \in StopSenders, v \in SessConvs}

\* The pendingSpawns maps: one in each hostHookState of the hub, and the
\* one of the watcher connection of the web process.
HookStateIds == 1..MaxHookStates
WatcherQueue == MaxHookStates + 1
QueueIds == HookStateIds \cup {WatcherQueue}

\* claudeName := req.Sender + "'s Claude"
claudeName(sender) == IF sender = "U" THEN "H" ELSE ""

NoTurn == [pc |-> "none", key |-> sessionKey("", "", ""), sig |-> None,
           req |-> None, via |-> "", parent |-> None, q |-> None,
           cancelled |-> FALSE, failed |-> FALSE]
NoSignal == [pc |-> "none", key |-> sessionKey("", "", ""), busy |-> None,
             q |-> None]
NoHookState == [made |-> FALSE, room |-> "", sender |-> ""]

\* The room names of the lookups, and the calls of GetOrCreateRoom and
\* GetRoom in order of arrival.
HubNames == {"R", "Q"}
LookupIds == 1..MaxLookups
\* (locked: the call went on to the write lock)
NoLookup == [pc |-> "none", op |-> "", name |-> "", ret |-> None, locked |-> FALSE]

\* The goroutines `go func() { spawner.Spawn(event.Spawn) }()` of one
\* daemon, in order of launch.
SpawnIds == 1..MaxSpawns
NoSpawn == [pc |-> "none", err |-> FALSE]

VARIABLES
    \* ---- Hub / Room (room.go:29-40)
    maxHistory,        \* Room.maxHistory
    rooms,             \* Hub.rooms (the names of the rooms that exist)
    seq,               \* Room.seq
    messages,          \* Room.messages
    clients,           \* Room.clients
    participants,      \* Room.participants: name -> participantState
    convParticipants,  \* Room.convParticipants: conv_id -> set of names
    spawnHooks,        \* Room.spawnHooks (the names that have a hook)
    \* ---- Client (websocket.go:27-35)
    cpc,               \* where each connection is in ServeWS / readPump
    send,              \* Client.send
    rawSend,           \* Client.rawSend
    wpc,               \* where each writePump is
    wenv,              \* the envelope a writePump is dispatching
    \* ---- callers of AddMessage between Unlock and return (room.go:90-96)
    bcast,
    \* ---- what the outside has observed
    wire,              \* frames written to each connection, in order
    hookCalls,         \* spawn hook invocations: name -> trigger seqs
    appended,          \* every envelope AddMessage returned, in append order
    posts,             \* send requests posted so far
    got,               \* the last answer of MessagesAfter / LatestMessages
    \* ---- SessionManager and the watcher's queue (session.go, web.go)
    sessions,          \* SessionManager.sessions: key -> the turn that owns it
    pendingSpawns,     \* the pendingSpawns maps: queue -> conv -> signal
    hookStates,        \* Handlers.hookStates: claude name -> hostHookState
    hookObj,           \* the hostHookState objects made so far
    hookFn,            \* room -> name -> the hostHookState whose trySpawn is the hook
    turn,              \* the goroutines running Runner.Spawn and their deferred calls
    call,              \* the trySpawn call made for each arriving spawn signal
    resp,              \* the last response of an HTTP endpoint
    stale,             \* the signals that were queued for a key when it was stopped
    \* ---- Hub.rooms and the lookups in progress (part_010)
    hubRooms,          \* Hub.rooms: room name -> the Room stored under it
    newRooms,          \* the Rooms NewRoom has made: the name each was made for
    lookup,            \* the calls of GetOrCreateRoom and GetRoom, step by step
    \* ---- the Spawner of one daemon process (daemon/spawner.go)
    flagConcurrent,    \* the --max-concurrent flag the daemon was started with
    maxConcurrent,     \* Spawner.maxConcurrent (0 before NewSpawner)
    sem,               \* the number of tokens in Spawner.sem
    spawn              \* the goroutines running Spawner.Spawn

roomVars == <<maxHistory, rooms, seq, messages, clients, participants,
              convParticipants, spawnHooks>>
clientVars == <<cpc, send, rawSend, wpc, wenv>>
obsVars == <<wire, hookCalls, appended, posts, got>>
sessVars == <<sessions, pendingSpawns, hookStates, hookObj, hookFn, turn, call,
              resp, stale>>
hubVars == <<hubRooms, newRooms, lookup>>
spawnerVars == <<flagConcurrent, maxConcurrent, sem, spawn>>
vars == <<roomVars, clientVars, bcast, obsVars, sessVars, hubVars, spawnerVars>>

Max(a, b) == IF a >= b THEN a ELSE b
Min(a, b) == IF a <= b THEN a ELSE b

(***************************************************************************)
(* Hub                                                                     *)
(***************************************************************************)
NewHub(cfgMaxHistory) ==
    IF cfgMaxHistory <= 0 THEN DefaultMaxHistory ELSE cfgMaxHistory

NoParticipant ==
    [known |-> FALSE, role |-> "", connected |-> FALSE, client |-> None]

(***************************************************************************)
(* Room: the log                                                           *)
(***************************************************************************)
\* a sequence counter derived from the retained log
NextSeqFromLog(s, log) == Len(log) + 1

\* room.go:58
NextSeq(s, log) == s + 1

Envelope(s, sender, type, md) ==
    [seq |-> s, sender |-> sender, type |-> type, to |-> md.to, conv |-> md.conv,
     er |-> md.er, private |-> md.private]

\* a truncation that cuts the tail
TrimNewest(log, maxH) ==
    IF Len(log) > maxH THEN SubSeq(log, 1, maxH) ELSE log

\* room.go:69-74: append, then cut the head when over maxHistory
Trim(log, maxH) ==
    IF Len(log) > maxH
    THEN SubSeq(log, Len(log) - maxH + 1, Len(log))
    ELSE log

\* a thread that holds the names of its latest envelope only
TrackConvLatest(cp, env) ==
    IF env.conv # ""
    THEN [cp EXCEPT ![env.conv] =
            {env.sender} \cup (IF env.to # "" THEN {env.to} ELSE {})]
    ELSE cp

\* room.go:75-84
TrackConv(cp, env) ==
    IF env.conv # ""
    THEN [cp EXCEPT ![env.conv] =
            @ \cup {env.sender} \cup (IF env.to # "" THEN {env.to} ELSE {})]
    ELSE cp

\* room.go:105-114: the index of the first envelope at or after position i
\* whose SeqNum is above `after`; None when the loop reaches the last
\* envelope without finding one
RECURSIVE FirstAfter(_, _)
FirstAfter(i, after) ==
    IF i > Len(messages) THEN None
    ELSE IF messages[i].seq > after THEN i
    ELSE FirstAfter(i + 1, after)

\* a scan that also takes the envelope whose SeqNum equals `after`
MessagesAfterFrom(after, limit) ==
    LET result == SelectSeq(messages, LAMBDA m : m.seq >= after)
    IN  IF limit > 0 /\ Len(result) > limit THEN SubSeq(result, 1, limit) ELSE result

\* a cut that keeps the newest `limit` envelopes
MessagesAfterNewest(after, limit) ==
    LET result == SelectSeq(messages, LAMBDA m : m.seq > after)
    IN  IF limit > 0 /\ Len(result) > limit
        THEN SubSeq(result, Len(result) - limit + 1, Len(result))
        ELSE result

\* room.go:100-127
MessagesAfter(after, limit) ==
    LET start == FirstAfter(1, after)
    IN  IF Len(messages) = 0 \/ start = None
        THEN <<>>
        ELSE LET result == SubSeq(messages, start, Len(messages))
             IN  IF limit > 0 /\ Len(result) > limit
                 THEN SubSeq(result, 1, limit)
                 ELSE result

\* a read that returns the oldest n envelopes
LatestMessagesOldest(n) ==
    IF n <= 0 \/ Len(messages) = 0
    THEN <<>>
    ELSE SubSeq(messages, 1, Min(n, Len(messages)))

\* room.go:130-144
LatestMessages(n) ==
    IF n <= 0 \/ Len(messages) = 0
    THEN <<>>
    ELSE SubSeq(messages, Max(Len(messages) - n, 0) + 1, Len(messages))

Seqs(log) == [i \in 1..Len(log) |-> log[i].seq]

(***************************************************************************)
(* Room: spawn target selection                                            *)
(***************************************************************************)
\* a filter that looks at the recipient only
DirectedTo(env) == env.to # ""

\* room.go:238, 281
Directed(env) == env.to # "" /\ env.er = "true"

IsDaemon(n) ==
    /\ n \in Names
    /\ participants[n].known
    /\ participants[n].connected
    /\ participants[n].role = "daemon"

\* room.go:280-318, first result
\* a selection that looks at `to` only, also in a thread
GetConvSpawnTargetsTo(env) ==
    IF ~Directed(env) THEN {}
    ELSE IF IsDaemon(env.to) THEN {env.to} ELSE {}

GetConvSpawnTargets(env) ==
    IF ~Directed(env) THEN {}
    ELSE (IF IsDaemon(env.to) THEN {env.to} ELSE {})
         \cup (IF env.conv # ""
               THEN {n \in convParticipants[env.conv] \ {env.sender} : IsDaemon(n)}
               ELSE {})

\* room.go:280-318 and 237-275, second result
\* a member list that leaves the sender out
AllParticipantsOthers(env) ==
    IF Directed(env) /\ env.conv # "" THEN convParticipants[env.conv] \ {env.sender} ELSE {}

AllParticipants(env) ==
    IF Directed(env) /\ env.conv # "" THEN convParticipants[env.conv] ELSE {}

\* room.go:321-331: the names that have a daemon client
GetDaemonClients(names) ==
    {n \in names : participants[n].known /\ participants[n].client # None}

\* room.go:237-275, first result
GetHookSpawnTargets(env) ==
    IF ~Directed(env) THEN {}
    ELSE {n \in ({env.to} \cup (IF env.conv # "" THEN convParticipants[env.conv] ELSE {}))
               \ {env.sender} :
            /\ n \in spawnHooks
            /\ ~(participants[n].known /\ participants[n].client # None)}

(***************************************************************************)
(* Client queues                                                           *)
(***************************************************************************)
\* a queue that makes room by dropping its oldest envelope
SendEvict(q, env) == IF Len(q) < SendCap THEN Append(q, env) ELSE Append(Tail(q), env)

\* websocket.go:38-44: a full channel drops the envelope
Send(q, env) == IF Len(q) < SendCap THEN Append(q, env) ELSE q

\* websocket.go:56-66
sendRaw(q, frame) == IF Len(q) < RawSendCap THEN Append(q, frame) ELSE q

SpawnFrame(env, members) ==
    [kind |-> "spawn", trigger |-> env.seq,
     context |-> Seqs(LatestMessages(ContextLen)), participants |-> members]

\* websocket.go:117-131: the wire form of an envelope depends on the mode
EnvelopeFrame(c, env) ==
    [kind |-> IF ServeWSParams(c).mode = "daemon" THEN "message" ELSE "envelope",
     seq |-> env.seq]

(***************************************************************************)
(* Init: NewHub, a room with no client                                     *)
(***************************************************************************)
Init ==
    /\ maxHistory \in {NewHub(h) : h \in {0, MaxCfgHistory}}
    /\ rooms = {}
    /\ seq = 0
    /\ messages = <<>>
    /\ clients = {}
    /\ participants = [n \in Names |-> NoParticipant]
    /\ convParticipants = [c \in ConvIds |-> {}]
    /\ spawnHooks = {}
    /\ cpc = [c \in ClientIds |-> "new"]
    /\ send = [c \in ClientIds |-> <<>>]
    /\ rawSend = [c \in ClientIds |-> <<>>]
    /\ wpc = [c \in ClientIds |-> "off"]
    /\ wenv = [c \in ClientIds |-> NoEnvelope]
    /\ bcast = [p \in Callers |-> NoCall]
    /\ wire = [c \in ClientIds |-> <<>>]
    /\ hookCalls = [n \in HookNames |-> <<>>]
    /\ appended = <<>>
    /\ posts = 0
    /\ got = NoAnswer
    /\ sessions = [k \in Keys |-> None]
    /\ pendingSpawns = [q \in QueueIds |-> [v \in SessConvs |-> None]]
    /\ hookStates = [n \in HookNames |-> None]
    /\ hookObj = [g \in HookStateIds |-> NoHookState]
    /\ hookFn = [r \in HostRooms |-> [n \in HookNames |-> None]]
    /\ turn = [t \in TurnIds |-> NoTurn]
    /\ call = [s \in SigIds |-> NoSignal]
    /\ resp = ""
    /\ stale = {}
    /\ hubRooms = [n \in HubNames |-> None]
    /\ newRooms = <<>>
    /\ lookup = [g \in LookupIds |-> NoLookup]
    /\ flagConcurrent = 0
    /\ maxConcurrent = 0
    /\ sem = 0
    /\ spawn = [i \in SpawnIds |-> NoSpawn]

(***************************************************************************)
(* Room.AddMessage, room.go:56-97.  The part under r.mu is one step; the   *)
(* caller then sends the envelope to the clients it copied, one Send per   *)
(* step, in the order the map iteration gave.                              *)
(***************************************************************************)
AddMessageLocked(p, sender, type, md, starts) ==
    LET s == NextSeq(seq, messages)
        env == Envelope(s, sender, type, md)
    IN /\ ~bcast[p].active
       /\ seq' = s
       /\ messages' = Trim(Append(messages, env), maxHistory)
       /\ convParticipants' = TrackConv(convParticipants, env)
       /\ appended' = Append(appended, env)
       /\ bcast' = [bcast EXCEPT ![p] = [env |-> env, todo |-> clients, starts |-> starts,
                                          active |-> TRUE]]

\* room.go:93-96, one iteration; the caller returns when none is left
Broadcast(p, c) ==
    /\ bcast[p].active
    /\ c \in bcast[p].todo
    /\ send' = [send EXCEPT ![c] = Send(@, bcast[p].env)]
    /\ bcast' = [bcast EXCEPT ![p].todo = @ \ {c}]
    /\ UNCHANGED <<roomVars, cpc, rawSend, wpc, wenv, wire, hookCalls, appended, posts, got>>

\* AddMessage returns (room.go:96); ServeWS then starts the pumps (websocket.go:226-227)
Return(p) ==
    /\ bcast[p].active
    /\ bcast[p].todo = {}
    /\ bcast' = [bcast EXCEPT ![p] = NoCall]
    /\ IF bcast[p].starts # None
       THEN /\ cpc' = [cpc EXCEPT ![bcast[p].starts] = "open"]
            /\ wpc' = [wpc EXCEPT ![bcast[p].starts] = "select"]
       ELSE UNCHANGED <<cpc, wpc>>
    /\ UNCHANGED <<roomVars, send, rawSend, wenv, obsVars>>

(***************************************************************************)
(* Handlers.SendMessage, server.go:227-250: POST /api/rooms/R/messages     *)
(***************************************************************************)
\* part_010:24-41: the room of that name, made when the hub has none
GetOrCreateRoom(rs, name) == [rooms |-> rs \cup {name}, found |-> TRUE]
\* a lookup that makes the room it does not find
GetRoomCreating(rs, name) == GetOrCreateRoom(rs, name)
\* part_010:44-48: the room of that name or nil; the map is only read
GetRoom(rs, name) == [rooms |-> rs, found |-> name \in rs]

\* a handler that appends the type as it was sent
KeepType(type) == type

\* server.go:242-244 (and websocket.go:94-97): an empty type is text
DefaultType(type) == IF type = "" THEN "text" ELSE type

\* server.go:242-249: the request passed validation; GetOrCreateRoom, then
\* AddMessage
AppendRequest(p, sender, type, md) ==
    /\ posts' = posts + 1
    /\ rooms' = GetOrCreateRoom(rooms, RoomName).rooms
    /\ AddMessageLocked(p, sender, DefaultType(type), md, None)
    /\ UNCHANGED <<maxHistory, clients, participants, spawnHooks, clientVars,
                   wire, hookCalls, got>>

\* a well-formed request of type text; the response is not recorded
SendMessage(p, sender, md) ==
    /\ sender # ""
    /\ AppendRequest(p, sender, "text", md)

\* the body of a POST: one that does not decode has no fields
SendRequest(decodes, sender, type, md) ==
    [decodes |-> decodes, sender |-> sender, type |-> type, md |-> md]

\* server.go:228-241: no room name, a body that does not decode, no sender
Rejected(roomName, req) == roomName = "" \/ ~req.decodes \/ req.sender = ""

\* server.go:227-250, the whole handler with its response: 400 or 201
HandlersSendMessage(p, roomName, req) ==
    /\ IF Rejected(roomName, req)
       THEN /\ resp' = "bad_request"
            /\ UNCHANGED <<roomVars, clientVars, bcast, obsVars>>
       ELSE /\ resp' = "created"
            /\ AppendRequest(p, req.sender, req.type, req.md)
    /\ UNCHANGED <<sessions, pendingSpawns, hookStates, hookObj, hookFn, turn,
                   call, stale>>

\* a query parameter as the handler reads it: not given, not a number, a number
NoParam == [kind |-> "absent", n |-> 0]
BadParam == [kind |-> "bad", n |-> 0]
IntParam(n) == [kind |-> "int", n |-> n]
\* the value of a parameter, the default when it is not given
ParamOr(q, default) == IF q.kind = "absent" THEN default ELSE q.n
\* strconv.Atoi failed, or the number is below one
BelowOne(q) == q.kind = "bad" \/ (q.kind = "int" /\ q.n < 1)

\* the orders in which a loop over a map may visit the keys in S
Orderings(S) ==
    {o \in [1..Cardinality(S) -> S] :
        \A i, j \in 1..Cardinality(S) : i # j => o[i] # o[j]}

\* room.go:204-218: one ParticipantInfo for each participant record
ListParticipants(o) ==
    [i \in 1..Len(o) |-> [name |-> o[i], role |-> participants[o[i]].role,
                           connected |-> participants[o[i]].connected]]

\* the answer of a query: a status, and a list when the status is 200
Answer(status, op, who, out) ==
    /\ resp' = status
    /\ got' = IF status = "ok"
              THEN [op |-> op, who |-> who, after |-> 0, limit |-> 0,
                    at |-> 0, out |-> out]
              ELSE NoAnswer
    /\ UNCHANGED <<maxHistory, seq, messages, clients, participants,
                   convParticipants, spawnHooks, clientVars, bcast, wire,
                   hookCalls, appended, posts, sessions, pendingSpawns,
                   hookStates, hookObj, hookFn, turn, call, stale>>

\* server.go:253-291
HandlersGetMessages(who, roomName, after, limit) ==
    IF roomName = ""
    THEN rooms' = rooms /\ Answer("bad_request", "after", who, <<>>)
    ELSE LET r == GetRoom(rooms, roomName)
         IN  /\ rooms' = r.rooms
             /\ IF ~r.found THEN Answer("ok", "after", who, <<>>)
                ELSE IF after.kind = "bad" THEN Answer("bad_request", "after", who, <<>>)
                ELSE IF BelowOne(limit) THEN Answer("bad_request", "after", who, <<>>)
                ELSE Answer("ok", "after", who,
                            MessagesAfter(ParamOr(after, 0), ParamOr(limit, DefaultLimit)))

\* server.go:294-322
HandlersLatestMessages(who, roomName, n) ==
    IF roomName = ""
    THEN rooms' = rooms /\ Answer("bad_request", "latest", who, <<>>)
    ELSE LET r == GetRoom(rooms, roomName)
         IN  /\ rooms' = r.rooms
             /\ IF ~r.found THEN Answer("ok", "latest", who, <<>>)
                ELSE IF BelowOne(n) THEN Answer("bad_request", "latest", who, <<>>)
                ELSE Answer("ok", "latest", who, LatestMessages(ParamOr(n, DefaultLatest)))

\* server.go:444-459
HandlersListParticipants(who, roomName) ==
    IF roomName = ""
    THEN rooms' = rooms /\ Answer("bad_request", "participants", who, <<>>)
    ELSE LET r == GetRoom(rooms, roomName)
         IN  /\ rooms' = r.rooms
             /\ IF ~r.found THEN Answer("ok", "participants", who, <<>>)
                ELSE \E o \in Orderings({x \in Names : participants[x].known}) :
                        Answer("ok", "participants", who, ListParticipants(o))

(***************************************************************************)
(* Client.readPump, websocket.go:81-99: one send request from the stream   *)
(***************************************************************************)
readPump(p, c, reqSender, md) ==
    /\ cpc[c] = "open"
    /\ posts' = posts + 1
    /\ AddMessageLocked(p, IF reqSender = "" THEN ServeWSParams(c).sender ELSE reqSender,
                        DefaultType("text"), md, None)
    /\ UNCHANGED <<maxHistory, rooms, clients, participants, spawnHooks, clientVars,
                   wire, hookCalls, got>>

(***************************************************************************)
(* ServeWS, websocket.go:190-228                                           *)
(***************************************************************************)
\* room.go:174-192
TrackParticipant(ps, name, role, c) ==
    IF ps[name].known
    THEN [ps EXCEPT ![name].connected = TRUE,
                    ![name].role = role,
                    ![name].client = IF role = "daemon" THEN c ELSE @]
    ELSE [ps EXCEPT ![name] =
            [known |-> TRUE, role |-> role, connected |-> TRUE, client |-> c]]

\* room.go:195-202
UntrackParticipant(ps, name) ==
    IF ps[name].known
    THEN [ps EXCEPT ![name].connected = FALSE, ![name].client = None]
    ELSE ps

\* websocket.go:206-219: GetOrCreateRoom, RegisterClient, then TrackParticipant
ServeWSRegister(c) ==
    /\ cpc[c] = "new"
    /\ clients' = clients \cup {c}
    /\ participants' = TrackParticipant(participants, ServeWSParams(c).sender,
                                        ServeWSParams(c).role, c)
    /\ cpc' = [cpc EXCEPT ![c] = "registered"]
    /\ rooms' = GetOrCreateRoom(rooms, RoomName).rooms
    /\ UNCHANGED <<maxHistory, seq, messages, convParticipants, spawnHooks,
                   send, rawSend, wpc, wenv, bcast, obsVars>>

\* websocket.go:221-224: the join announcement
ServeWSJoin(p, c) ==
    /\ cpc[c] = "registered"
    /\ cpc' = [cpc EXCEPT ![c] = "joining"]
    /\ AddMessageLocked(p, "system", "system", NoMetadata, c)
    /\ UNCHANGED <<maxHistory, rooms, clients, participants, spawnHooks,
                   send, rawSend, wpc, wenv, wire, hookCalls, posts, got>>

(***************************************************************************)
(* Client.readPump teardown, websocket.go:70-74                            *)
(***************************************************************************)
\* (the read fails: the peer went away, or the writer closed the connection)
Disconnect(c) ==
    /\ cpc[c] \in {"open", "broken"}
    /\ clients' = clients \ {c}
    /\ participants' = UntrackParticipant(participants, ServeWSParams(c).sender)
    /\ cpc' = [cpc EXCEPT ![c] = "closed"]
    /\ UNCHANGED <<maxHistory, rooms, seq, messages, convParticipants, spawnHooks,
                   send, rawSend, wpc, wenv, bcast, obsVars>>

(***************************************************************************)
(* Room.RegisterSpawnHook / UnregisterSpawnHook, room.go:222-233           *)
(***************************************************************************)
RegisterSpawnHook(n) ==
    /\ n \notin spawnHooks
    /\ spawnHooks' = spawnHooks \cup {n}
    /\ UNCHANGED <<maxHistory, rooms, seq, messages, clients, participants,
                   convParticipants, clientVars, bcast, obsVars>>

UnregisterSpawnHook(n) ==
    /\ n \in spawnHooks
    /\ spawnHooks' = spawnHooks \ {n}
    /\ UNCHANGED <<maxHistory, rooms, seq, messages, clients, participants,
                   convParticipants, clientVars, bcast, obsVars>>

(***************************************************************************)
(* Client.writePump, websocket.go:103-187                                  *)
(***************************************************************************)
\* the daemon connections a dispatch by c enqueues a spawn frame on
\* (websocket.go:135-155)
\* a dispatch that does not skip the connection it runs on
DispatchTargetsAll(c, env) == GetDaemonClients(GetConvSpawnTargets(env))

DispatchTargets(c, env) ==
    {n \in GetDaemonClients(GetConvSpawnTargets(env)) : participants[n].client # c}

\* websocket.go:111-156: take an envelope from c.send, write it, then send
\* the spawn events to the daemon targets
writeEnvelope(c) ==
    /\ wpc[c] = "select"
    /\ cpc[c] # "closed"
    /\ send[c] # <<>>
    /\ LET env == Head(send[c])
           frame == SpawnFrame(env, AllParticipants(env))
           dcs == {participants[n].client : n \in DispatchTargets(c, env)}
       IN /\ send' = [send EXCEPT ![c] = Tail(@)]
          /\ wire' = [wire EXCEPT ![c] = Append(@, EnvelopeFrame(c, env))]
          /\ rawSend' = [d \in ClientIds |->
                           IF d \in dcs THEN sendRaw(rawSend[d], frame) ELSE rawSend[d]]
          /\ wenv' = [wenv EXCEPT ![c] = env]
          /\ wpc' = [wpc EXCEPT ![c] = "hooks"]
    /\ UNCHANGED <<roomVars, cpc, bcast, hookCalls, appended, posts, got>>

\* websocket.go:158-171: fire the hooks of the non-daemon targets
fireHooks(c) ==
    /\ wpc[c] = "hooks"
    /\ hookCalls' = [n \in HookNames |->
                       IF n \in GetHookSpawnTargets(wenv[c])
                       THEN Append(hookCalls[n],
                                   [trigger |-> wenv[c].seq,
                                    participants |-> AllParticipants(wenv[c])])
                       ELSE hookCalls[n]]
    /\ wenv' = [wenv EXCEPT ![c] = NoEnvelope]
    /\ wpc' = [wpc EXCEPT ![c] = "select"]
    /\ UNCHANGED <<roomVars, cpc, send, rawSend, bcast, wire, appended, posts, got>>

\* websocket.go:172-179: write one raw frame
writeRaw(c) ==
    /\ wpc[c] = "select"
    /\ cpc[c] # "closed"
    /\ rawSend[c] # <<>>
    /\ rawSend' = [rawSend EXCEPT ![c] = Tail(@)]
    /\ wire' = [wire EXCEPT ![c] = Append(@, Head(rawSend[c]))]
    /\ UNCHANGED <<roomVars, cpc, send, wpc, wenv, bcast, hookCalls,
                   appended, posts, got>>

\* a write on a closed connection fails and the writer returns
\* (websocket.go:123-130, 177-178, 182-184)
writeFail(c) ==
    /\ wpc[c] = "select"
    /\ cpc[c] = "closed"
    /\ wpc' = [wpc EXCEPT ![c] = "off"]
    /\ UNCHANGED <<roomVars, cpc, send, rawSend, wenv, bcast, obsVars>>

\* websocket.go:123-130, 177-178, 182-184 and the deferred 105-108: a write
\* of an envelope, of a raw frame or of a ping fails on a connection that
\* is up; the writer returns and closes the connection, which the reader
\* has yet to notice
writeError(c) ==
    /\ wpc[c] = "select"
    /\ cpc[c] = "open"
    /\ \/ send[c] # <<>> /\ send' = [send EXCEPT ![c] = Tail(@)] /\ rawSend' = rawSend
       \/ rawSend[c] # <<>> /\ rawSend' = [rawSend EXCEPT ![c] = Tail(@)] /\ send' = send
       \/ send' = send /\ rawSend' = rawSend
    /\ wpc' = [wpc EXCEPT ![c] = "off"]
    /\ cpc' = [cpc EXCEPT ![c] = "broken"]
    /\ UNCHANGED <<roomVars, wenv, bcast, obsVars>>

(***************************************************************************)
(* Nothing is in flight: no caller is inside AddMessage, no connection is  *)
(* being set up, and every queue of an open connection has been drained.   *)
(***************************************************************************)
Quiet ==
    /\ \A p \in Callers : ~bcast[p].active
    /\ \A c \in ClientIds :
          /\ cpc[c] \in {"new", "open", "closed"}
          /\ wpc[c] # "hooks"
          /\ cpc[c] = "open" => send[c] = <<>> /\ rawSend[c] = <<>>

\* the caller slots are interchangeable: a new call takes the lowest free one
FreeCaller(p) ==
    /\ ~bcast[p].active
    /\ \A q \in Callers : q < p => bcast[q].active

\* the connections are opened in the order of their ids
InOrderOf(cs, c) == \A d \in cs : d < c => cpc[d] # "new"
InOrder(c) == InOrderOf(ClientIds, c)

\* the connections and hooks are set up before the first post, one at a time
Setup == posts = 0 /\ Quiet
\* the first post finds the room set up; the later ones come at any moment
MayPost(max) == posts < max /\ (posts = 0 => Quiet)

(***************************************************************************)
(* The dispatch workload: three connections and one hook, then a directed  *)
(* post.                                                                   *)
(***************************************************************************)
DispatchClients == {1, 2, 3}

Next ==
    \/ \E p \in Callers, md \in Metadatas :
          MayPost(MaxPosts) /\ FreeCaller(p) /\ SendMessage(p, "A", md)
          /\ UNCHANGED <<sessVars, hubVars, spawnerVars>>
    \/ \E p \in Callers, c \in DispatchClients, md \in Metadatas :
          MayPost(MaxPosts) /\ FreeCaller(p) /\ readPump(p, c, "", md)
          /\ UNCHANGED <<sessVars, hubVars, spawnerVars>>
    \/ \E p \in Callers, c \in DispatchClients : Broadcast(p, c)
          /\ UNCHANGED <<sessVars, hubVars, spawnerVars>>
    \/ \E p \in Callers : Return(p)
          /\ UNCHANGED <<sessVars, hubVars, spawnerVars>>
    \/ \E c \in DispatchClients : Setup /\ InOrder(c) /\ ServeWSRegister(c)
          /\ UNCHANGED <<sessVars, hubVars, spawnerVars>>
    \/ \E p \in Callers, c \in DispatchClients : FreeCaller(p) /\ ServeWSJoin(p, c)
          /\ UNCHANGED <<sessVars, hubVars, spawnerVars>>
    \/ \E c \in DispatchClients : Setup /\ Disconnect(c)
          /\ UNCHANGED <<sessVars, hubVars, spawnerVars>>
    \/ \E n \in HookNames : Setup /\ RoomName \in rooms /\ RegisterSpawnHook(n)
          /\ UNCHANGED <<sessVars, hubVars, spawnerVars>>
    \/ \E n \in HookNames : Setup /\ UnregisterSpawnHook(n)
          /\ UNCHANGED <<sessVars, hubVars, spawnerVars>>
    \/ \E c \in DispatchClients : writeEnvelope(c)
          /\ UNCHANGED <<sessVars, hubVars, spawnerVars>>
    \/ \E c \in DispatchClients : fireHooks(c)
          /\ UNCHANGED <<sessVars, hubVars, spawnerVars>>
    \/ \E c \in DispatchClients : writeRaw(c)
          /\ UNCHANGED <<sessVars, hubVars, spawnerVars>>
    \/ \E c \in DispatchClients : writeFail(c)
          /\ UNCHANGED <<sessVars, hubVars, spawnerVars>>

Spec == Init /\ [][Next]_vars

(***************************************************************************)
(* The log workload: one connection (the daemon B, whose own writer never  *)
(* sends it a spawn frame), then posts by concurrent callers.               *)
(***************************************************************************)
LogClients == {1}
LogMetadatas ==
    { Metadata("", "", "", ""),
      Metadata("B", "g1", "true", "") }

NextLog ==
    \/ \E p \in Callers, md \in LogMetadatas :
          MayPost(MaxLogPosts) /\ FreeCaller(p) /\ SendMessage(p, "A", md)
          /\ UNCHANGED <<sessVars, hubVars, spawnerVars>>
    \/ \E p \in Callers, c \in LogClients, md \in LogMetadatas :
          MayPost(MaxLogPosts) /\ FreeCaller(p) /\ readPump(p, c, "", md)
          /\ UNCHANGED <<sessVars, hubVars, spawnerVars>>
    \/ \E p \in Callers, c \in LogClients : Broadcast(p, c)
          /\ UNCHANGED <<sessVars, hubVars, spawnerVars>>
    \/ \E p \in Callers : Return(p)
          /\ UNCHANGED <<sessVars, hubVars, spawnerVars>>
    \/ \E c \in LogClients : Setup /\ InOrder(c) /\ ServeWSRegister(c)
          /\ UNCHANGED <<sessVars, hubVars, spawnerVars>>
    \/ \E p \in Callers, c \in LogClients : FreeCaller(p) /\ ServeWSJoin(p, c)
          /\ UNCHANGED <<sessVars, hubVars, spawnerVars>>
    \/ \E c \in LogClients : writeEnvelope(c)
          /\ UNCHANGED <<sessVars, hubVars, spawnerVars>>
    \/ \E c \in LogClients : fireHooks(c)
          /\ UNCHANGED <<sessVars, hubVars, spawnerVars>>

SpecLog == Init /\ [][NextLog]_vars

(***************************************************************************)
(* The thread workload: the daemons B and C are connected, A posts to B on *)
(* the thread g1 over HTTP, then B answers A on g1 over its connection.    *)
(***************************************************************************)
ThreadClients == {1, 3}

NextThread ==
    \/ \E p \in Callers :
          /\ posts = 0 /\ Quiet /\ FreeCaller(p)
          /\ \A c \in ThreadClients : cpc[c] = "open"
          /\ SendMessage(p, "A", Metadata("B", "g1", "true", ""))
          /\ UNCHANGED <<sessVars, hubVars, spawnerVars>>
    \/ \E p \in Callers :
          /\ posts \in 1..(MaxThreadPosts - 1) /\ FreeCaller(p)
          /\ readPump(p, 1, "", Metadata("A", "g1", "true", ""))
          /\ UNCHANGED <<sessVars, hubVars, spawnerVars>>
    \/ \E p \in Callers, c \in ThreadClients : Broadcast(p, c)
          /\ UNCHANGED <<sessVars, hubVars, spawnerVars>>
    \/ \E p \in Callers : Return(p)
          /\ UNCHANGED <<sessVars, hubVars, spawnerVars>>
    \/ \E c \in ThreadClients : Setup /\ InOrderOf(ThreadClients, c) /\ ServeWSRegister(c)
          /\ UNCHANGED <<sessVars, hubVars, spawnerVars>>
    \/ \E p \in Callers, c \in ThreadClients : FreeCaller(p) /\ ServeWSJoin(p, c)
          /\ UNCHANGED <<sessVars, hubVars, spawnerVars>>
    \/ \E c \in ThreadClients : writeEnvelope(c)
          /\ UNCHANGED <<sessVars, hubVars, spawnerVars>>
    \/ \E c \in ThreadClients : fireHooks(c)
          /\ UNCHANGED <<sessVars, hubVars, spawnerVars>>
    \/ \E c \in ThreadClients : writeRaw(c)
          /\ UNCHANGED <<sessVars, hubVars, spawnerVars>>

SpecThread == Init /\ [][NextThread]_vars

(***************************************************************************)
(* The mode workload: the user A (no mode, role user), the daemon C        *)
(* (mode=daemon, role=daemon) and B, whose connection names role=daemon    *)
(* and no mode, are connected; A posts, to nobody or to B.                 *)
(***************************************************************************)
ModeClients == {2, 3, 6}
ModeMetadatas == {Metadata("", "", "", ""), Metadata("B", "", "true", "")}

NextMode ==
    \/ \E p \in Callers, md \in ModeMetadatas :
          MayPost(MaxModePosts) /\ FreeCaller(p) /\ SendMessage(p, "A", md)
          /\ UNCHANGED <<sessVars, hubVars, spawnerVars>>
    \/ \E p \in Callers, c \in ModeClients : Broadcast(p, c)
          /\ UNCHANGED <<sessVars, hubVars, spawnerVars>>
    \/ \E p \in Callers : Return(p)
          /\ UNCHANGED <<sessVars, hubVars, spawnerVars>>
    \/ \E c \in ModeClients : Setup /\ InOrderOf(ModeClients, c) /\ ServeWSRegister(c)
          /\ UNCHANGED <<sessVars, hubVars, spawnerVars>>
    \/ \E p \in Callers, c \in ModeClients : FreeCaller(p) /\ ServeWSJoin(p, c)
          /\ UNCHANGED <<sessVars, hubVars, spawnerVars>>
    \/ \E c \in ModeClients : writeEnvelope(c)
          /\ UNCHANGED <<sessVars, hubVars, spawnerVars>>
    \/ \E c \in ModeClients : fireHooks(c)
          /\ UNCHANGED <<sessVars, hubVars, spawnerVars>>
    \/ \E c \in ModeClients : writeRaw(c)
          /\ UNCHANGED <<sessVars, hubVars, spawnerVars>>

SpecMode == Init /\ [][NextMode]_vars

(***************************************************************************)
(* The group workload: the daemons B and C are connected and may           *)
(* disconnect; A (over HTTP), B and C (over their connections) post in the *)
(* thread g1, to B or to A, each post when the room has drained.           *)
(***************************************************************************)
GroupClients == {1, 3}
GroupMetadatas == {Metadata("B", "g1", "true", ""), Metadata("A", "g1", "true", "")}

NextGroup ==
    \/ \E p \in Callers, md \in GroupMetadatas :
          /\ posts < MaxGroupPosts /\ Quiet /\ FreeCaller(p)
          /\ \A c \in GroupClients : cpc[c] # "new"
          /\ SendMessage(p, "A", md)
          /\ UNCHANGED <<sessVars, hubVars, spawnerVars>>
    \/ \E p \in Callers, c \in GroupClients, md \in GroupMetadatas :
          /\ posts < MaxGroupPosts /\ Quiet /\ FreeCaller(p)
          /\ \A d \in GroupClients : cpc[d] # "new"
          /\ readPump(p, c, "", md)
          /\ UNCHANGED <<sessVars, hubVars, spawnerVars>>
    \/ \E p \in Callers, c \in GroupClients : Broadcast(p, c)
          /\ UNCHANGED <<sessVars, hubVars, spawnerVars>>
    \/ \E p \in Callers : Return(p)
          /\ UNCHANGED <<sessVars, hubVars, spawnerVars>>
    \/ \E c \in GroupClients : Setup /\ InOrderOf(GroupClients, c) /\ ServeWSRegister(c)
          /\ UNCHANGED <<sessVars, hubVars, spawnerVars>>
    \/ \E p \in Callers, c \in GroupClients : FreeCaller(p) /\ ServeWSJoin(p, c)
          /\ UNCHANGED <<sessVars, hubVars, spawnerVars>>
    \/ \E c \in GroupClients : Quiet /\ Disconnect(c)
          /\ UNCHANGED <<sessVars, hubVars, spawnerVars>>
    \/ \E c \in GroupClients : writeEnvelope(c)
          /\ UNCHANGED <<sessVars, hubVars, spawnerVars>>
    \/ \E c \in GroupClients : fireHooks(c)
          /\ UNCHANGED <<sessVars, hubVars, spawnerVars>>
    \/ \E c \in GroupClients : writeRaw(c)
          /\ UNCHANGED <<sessVars, hubVars, spawnerVars>>
    \/ \E c \in GroupClients : writeFail(c)
          /\ UNCHANGED <<sessVars, hubVars, spawnerVars>>

SpecGroup == Init /\ [][NextGroup]_vars

(***************************************************************************)
(* The hook workload: the agent H is co-resident with the hub (its hook is *)
(* registered or not); the user A has a connection; under the name H a     *)
(* watcher (role daemon) and a browser (role user) connect, in either      *)
(* order, and disconnect; then A or H posts over HTTP to H, A also in the  *)
(* thread g1, when the room has drained.                                   *)
(***************************************************************************)
HookClients == {2, 4, 7}
HookPosts ==
    {[sender |-> "A", md |-> Metadata("H", "", "true", "")],
     [sender |-> "A", md |-> Metadata("H", "g1", "true", "")],
     [sender |-> "H", md |-> Metadata("H", "", "true", "")]}

NextHook ==
    \/ \E p \in Callers, m \in HookPosts :
          /\ posts < MaxHookPosts /\ Quiet /\ FreeCaller(p)
          /\ cpc[2] = "open"
          /\ SendMessage(p, m.sender, m.md)
          /\ UNCHANGED <<sessVars, hubVars, spawnerVars>>
    \/ \E p \in Callers, c \in HookClients : Broadcast(p, c)
          /\ UNCHANGED <<sessVars, hubVars, spawnerVars>>
    \/ \E p \in Callers : Return(p)
          /\ UNCHANGED <<sessVars, hubVars, spawnerVars>>
    \/ \E c \in HookClients : Setup /\ ServeWSRegister(c)
          /\ UNCHANGED <<sessVars, hubVars, spawnerVars>>
    \/ \E p \in Callers, c \in HookClients : FreeCaller(p) /\ ServeWSJoin(p, c)
          /\ UNCHANGED <<sessVars, hubVars, spawnerVars>>
    \/ \E c \in HookClients \ {2} : Quiet /\ Disconnect(c)
          /\ UNCHANGED <<sessVars, hubVars, spawnerVars>>
    \/ \E n \in HookNames : Setup /\ RoomName \in rooms /\ RegisterSpawnHook(n)
          /\ UNCHANGED <<sessVars, hubVars, spawnerVars>>
    \/ \E c \in HookClients : writeEnvelope(c)
          /\ UNCHANGED <<sessVars, hubVars, spawnerVars>>
    \/ \E c \in HookClients : fireHooks(c)
          /\ UNCHANGED <<sessVars, hubVars, spawnerVars>>
    \/ \E c \in HookClients : writeRaw(c)
          /\ UNCHANGED <<sessVars, hubVars, spawnerVars>>
    \/ \E c \in HookClients : writeFail(c)
          /\ UNCHANGED <<sessVars, hubVars, spawnerVars>>

SpecHook == Init /\ [][NextHook]_vars

(***************************************************************************)
(* The connection workload: the user A has two connections, the agent H    *)
(* has a hook at the hub and a watcher connected under its name; A posts   *)
(* to H, and connections close at any moment.                              *)
(***************************************************************************)
ConnClients == {2, 4, 5}

NextConn ==
    \/ \E p \in Callers :
          /\ MayPost(MaxPosts) /\ FreeCaller(p)
          /\ SendMessage(p, "A", Metadata("H", "", "true", ""))
          /\ UNCHANGED <<sessVars, hubVars, spawnerVars>>
    \/ \E p \in Callers, c \in ConnClients : Broadcast(p, c)
          /\ UNCHANGED <<sessVars, hubVars, spawnerVars>>
    \/ \E p \in Callers : Return(p)
          /\ UNCHANGED <<sessVars, hubVars, spawnerVars>>
    \/ \E c \in ConnClients : Setup /\ InOrderOf(ConnClients, c) /\ ServeWSRegister(c)
          /\ UNCHANGED <<sessVars, hubVars, spawnerVars>>
    \/ \E p \in Callers, c \in ConnClients : FreeCaller(p) /\ ServeWSJoin(p, c)
          /\ UNCHANGED <<sessVars, hubVars, spawnerVars>>
    \/ \E c \in ConnClients : Disconnect(c)
          /\ UNCHANGED <<sessVars, hubVars, spawnerVars>>
    \/ \E n \in HookNames : Setup /\ RoomName \in rooms /\ RegisterSpawnHook(n)
          /\ UNCHANGED <<sessVars, hubVars, spawnerVars>>
    \/ \E c \in ConnClients : writeEnvelope(c)
          /\ UNCHANGED <<sessVars, hubVars, spawnerVars>>
    \/ \E c \in ConnClients : fireHooks(c)
          /\ UNCHANGED <<sessVars, hubVars, spawnerVars>>
    \/ \E c \in ConnClients : writeRaw(c)
          /\ UNCHANGED <<sessVars, hubVars, spawnerVars>>
    \/ \E c \in ConnClients : writeFail(c)
          /\ UNCHANGED <<sessVars, hubVars, spawnerVars>>

SpecConn == Init /\ [][NextConn]_vars

(***************************************************************************)
(* The overflow workload: the daemon B and the user A are connected; A     *)
(* posts to B, one request after the other, faster than the writers drain  *)
(* the queues.                                                             *)
(***************************************************************************)
DropClients == {1, 2}

NextDrop ==
    \/ \E p \in Callers :
          /\ posts < MaxDropPosts /\ FreeCaller(p)
          /\ \A q \in Callers : ~bcast[q].active
          /\ \A c \in DropClients : cpc[c] = "open"
          /\ SendMessage(p, "A", Metadata("B", "", "true", ""))
          /\ UNCHANGED <<sessVars, hubVars, spawnerVars>>
    \/ \E p \in Callers, c \in DropClients : Broadcast(p, c)
          /\ UNCHANGED <<sessVars, hubVars, spawnerVars>>
    \/ \E p \in Callers : Return(p)
          /\ UNCHANGED <<sessVars, hubVars, spawnerVars>>
    \/ \E c \in DropClients : Setup /\ InOrderOf(DropClients, c) /\ ServeWSRegister(c)
          /\ UNCHANGED <<sessVars, hubVars, spawnerVars>>
    \/ \E p \in Callers, c \in DropClients : FreeCaller(p) /\ ServeWSJoin(p, c)
          /\ UNCHANGED <<sessVars, hubVars, spawnerVars>>
    \/ \E c \in DropClients : writeEnvelope(c)
          /\ UNCHANGED <<sessVars, hubVars, spawnerVars>>
    \/ \E c \in DropClients : fireHooks(c)
          /\ UNCHANGED <<sessVars, hubVars, spawnerVars>>
    \/ \E c \in DropClients : writeRaw(c)
          /\ UNCHANGED <<sessVars, hubVars, spawnerVars>>

SpecDrop == Init /\ [][NextDrop]_vars

(***************************************************************************)
(* Readers of the log.  Room.MessagesAfter and Room.LatestMessages take    *)
(* the read lock and return a copy (room.go:100-144); neither has a        *)
(* parameter that says who is asking.                                      *)
(***************************************************************************)
Afters == (-1)..MaxAfter
Limits == (-1)..MaxLimit
Readers == {"C"}

ReadAfter(who, after, limit) ==
    /\ got' = [op |-> "after", who |-> who, after |-> after, limit |-> limit,
               at |-> seq, out |-> MessagesAfter(after, limit)]
    /\ UNCHANGED <<roomVars, clientVars, bcast, wire, hookCalls, appended, posts>>

ReadLatest(who, n) ==
    /\ got' = [op |-> "latest", who |-> who, after |-> 0, limit |-> n,
               at |-> seq, out |-> LatestMessages(n)]
    /\ UNCHANGED <<roomVars, clientVars, bcast, wire, hookCalls, appended, posts>>

(***************************************************************************)
(* The read workload: A posts over HTTP, also whispers to B, one request   *)
(* after the other; no connection is open; the reader C asks at any        *)
(* moment, also while an AddMessage has not returned.                      *)
(***************************************************************************)
ReadMetadatas == {Metadata("", "", "", ""), Metadata("B", "", "", "true")}

NextRead ==
    \/ \E p \in Callers, md \in ReadMetadatas :
          /\ posts < MaxReadPosts /\ FreeCaller(p)
          /\ \A q \in Callers : ~bcast[q].active
          /\ SendMessage(p, "A", md)
          /\ UNCHANGED <<sessVars, hubVars, spawnerVars>>
    \/ \E p \in Callers : Return(p)
          /\ UNCHANGED <<sessVars, hubVars, spawnerVars>>
    \/ \E who \in Readers, after \in Afters, limit \in Limits :
          ReadAfter(who, after, limit)
          /\ UNCHANGED <<sessVars, hubVars, spawnerVars>>
    \/ \E who \in Readers, n \in Limits : ReadLatest(who, n)
          /\ UNCHANGED <<sessVars, hubVars, spawnerVars>>

SpecRead == Init /\ [][NextRead]_vars

(***************************************************************************)
(* Sessions: SessionManager (runner/session.go) and the two places that    *)
(* run turns under it: the web process (cli/web.go: the watcher's trySpawn *)
(* and the spawn and stop endpoints) and the hub in host mode              *)
(* (server/server.go: hostHookState.trySpawn, SpawnClaude, StopClaude).    *)
(*                                                                         *)
(* A turn is one goroutine around Runner.Spawn.  Runner.Spawn runs the     *)
(* child with exec.Command and is given no context (runner.go:87-123); the *)
(* context that Start returns is discarded by every caller (web.go:176,    *)
(* web.go:365, server.go:113, server.go:512), so the cancel function that  *)
(* Stop calls ends nothing: a stopped turn keeps running until its child   *)
(* exits.                                                                  *)
(***************************************************************************)

\* The busy test of Start on the (room, sender) pair alone.
StartPerSender(sm, key, t) ==
    IF \E k \in Keys : k[1] = key[1] /\ k[2] = key[2] /\ sm[k] # None
    THEN [ok |-> FALSE, sessions |-> sm]
    ELSE [ok |-> TRUE, sessions |-> [sm EXCEPT ![key] = t]]

\* SessionManager.Start: an error when the key has an entry, else the
\* entry is installed (the entry is named after the turn it is given to).
\* a Stop that cancels and removes the entries of the room, whoever the sender
StopRoom(sm, room, sender) ==
    LET hit == {k \in Keys : k[1] = room /\ sm[k] # None}
    IN  [found |-> hit # {},
         hit |-> hit,
         sessions |-> [k \in Keys |-> IF k \in hit THEN None ELSE sm[k]]]

\* a Start that installs its entry over the one it finds
StartOverwrite(sm, key, t) == [ok |-> TRUE, sessions |-> [sm EXCEPT ![key] = t]]

Start(sm, key, t) ==
    IF sm[key] # None
    THEN [ok |-> FALSE, sessions |-> sm]
    ELSE [ok |-> TRUE, sessions |-> [sm EXCEPT ![key] = t]]

\* SessionManager.End: deletes the entry of the key, whoever installed it.
End(sm, key) == [sm EXCEPT ![key] = None]

\* SessionManager.Stop: cancels and deletes every entry of (room, sender);
\* an error when there was none.
Stop(sm, room, sender) ==
    LET hit == {k \in Keys : k[1] = room /\ k[2] = sender /\ sm[k] # None}
    IN  [found |-> hit # {},
         hit |-> hit,
         sessions |-> [k \in Keys |-> IF k \in hit THEN None ELSE sm[k]]]

\* the next goroutine, signal and hostHookState, in order of creation
NextTurn == Cardinality({t \in TurnIds : turn[t].pc # "none"}) + 1
NextSignal == Cardinality({s \in SigIds : call[s].pc # "none"}) + 1
NextHookState == Cardinality({g \in HookStateIds : hookObj[g].made}) + 1

NewTurn(key, sig, via, parent, q) ==
    [pc |-> "running", key |-> key, sig |-> sig, req |-> None, via |-> via,
     parent |-> parent, q |-> q, cancelled |-> FALSE, failed |-> FALSE]

\* trySpawn called for an arriving signal, on the queue q of its closure:
\* Start, and either the goroutine is launched or the call goes on to queue
\* the request.
trySpawn(q, key) ==
    LET s == NextSignal
        t == NextTurn
        r == Start(sessions, key, t)
    IN  /\ s \in SigIds
        /\ IF r.ok
           THEN /\ t \in TurnIds
                /\ sessions' = r.sessions
                /\ turn' = [turn EXCEPT ![t] = NewTurn(key, s, "signal", None, q)]
                /\ call' = [call EXCEPT ![s] =
                              [pc |-> "started", key |-> key, busy |-> sessions[key], q |-> q]]
           ELSE /\ call' = [call EXCEPT ![s] =
                              [pc |-> "queue", key |-> key, busy |-> sessions[key], q |-> q]]
                /\ UNCHANGED <<sessions, turn>>
        /\ UNCHANGED <<pendingSpawns, hookStates, hookObj, hookFn, resp, stale>>

\* The watcher's main loop calls trySpawn(convID, event.Spawn) for a spawn
\* frame it read.
watcherSpawn(room, sender, convID) ==
    trySpawn(WatcherQueue, sessionKey(room, sender, convID))

\* The goroutine `go hook(...)` of a writePump runs the registered hook,
\* hostHookState.trySpawn, with the room and sender of that state and the
\* conv_id of the trigger.
roomHookSpawn(room, n, convID) ==
    LET g == hookFn[room][n]
    IN  /\ g # None
        /\ trySpawn(g, sessionKey(hookObj[g].room, hookObj[g].sender, convID))

\* the hook of room R
hookSpawn(n, convID) == roomHookSpawn(RoomName, n, convID)

\* trySpawn after Start failed: pendingSpawns[convID] = req.
queueSpawn(s) ==
    /\ call[s].pc = "queue"
    /\ pendingSpawns' = [pendingSpawns EXCEPT ![call[s].q][call[s].key[3]] = s]
    /\ call' = [call EXCEPT ![s].pc = "queued"]
    /\ UNCHANGED <<sessions, turn, hookStates, hookObj, hookFn, resp, stale>>

\* Runner.Spawn returns in a goroutine of trySpawn or of handleLocalSpawn
\* (its error is only logged).
spawnReturns(t) ==
    /\ turn[t].pc = "running"
    /\ turn[t].via # "host"
    /\ turn' = [turn EXCEPT ![t].pc = "end"]
    /\ UNCHANGED <<sessions, pendingSpawns, call, hookStates, hookObj, hookFn, resp, stale>>

\* server.go:144-146, web.go:396-398, web.go:194-196: Runner.Spawn returns an
\* error, which is logged; `failed` remembers it
spawnFails(t) ==
    /\ turn[t].pc = "running"
    /\ turn[t].via # "host"
    /\ turn' = [turn EXCEPT ![t].pc = "end", ![t].failed = TRUE]
    /\ UNCHANGED <<sessions, pendingSpawns, call, hookStates, hookObj, hookFn, resp, stale>>

\* The deferred Sessions().End of a turn.  The goroutines of handleLocalSpawn
\* and SpawnClaude have nothing deferred after it; the one of trySpawn goes
\* on to the queue.
sessionEnd(t) ==
    /\ turn[t].pc = "end"
    /\ sessions' = End(sessions, turn[t].key)
    /\ turn' = [turn EXCEPT ![t].pc = IF turn[t].via \in {"user", "host"}
                                      THEN "done" ELSE "take"]
    /\ UNCHANGED <<pendingSpawns, call, hookStates, hookObj, hookFn, resp, stale>>

\* trySpawn's deferred function after End: read and delete the pending
\* request of the conv under the queue's mutex.
takePending(t) ==
    LET convID == turn[t].key[3]
        pending == pendingSpawns[turn[t].q][convID]
    IN  /\ turn[t].pc = "take"
        /\ pendingSpawns' = [pendingSpawns EXCEPT ![turn[t].q][convID] = None]
        /\ turn' = [turn EXCEPT ![t].req = pending,
                                ![t].pc = IF pending # None THEN "replay" ELSE "done"]
        /\ UNCHANGED <<sessions, call, hookStates, hookObj, hookFn, resp, stale>>

\* trySpawn(convID, pending) called from the deferred function.
replaySpawn(t) ==
    LET u == NextTurn
        key == turn[t].key
        r == Start(sessions, key, u)
    IN  /\ turn[t].pc = "replay"
        /\ IF r.ok
           THEN /\ u \in TurnIds
                /\ sessions' = r.sessions
                /\ turn' = [turn EXCEPT ![t].pc = "done",
                                        ![u] = NewTurn(key, turn[t].req, "replay", t, turn[t].q)]
           ELSE /\ turn' = [turn EXCEPT ![t].pc = "requeue"]
                /\ UNCHANGED sessions
        /\ UNCHANGED <<pendingSpawns, call, hookStates, hookObj, hookFn, resp, stale>>

\* the replaying trySpawn after Start failed: pendingSpawns[convID] = req.
requeueSpawn(t) ==
    /\ turn[t].pc = "requeue"
    /\ pendingSpawns' = [pendingSpawns EXCEPT ![turn[t].q][turn[t].key[3]] = turn[t].req]
    /\ turn' = [turn EXCEPT ![t].pc = "done"]
    /\ UNCHANGED <<sessions, call, hookStates, hookObj, hookFn, resp, stale>>

\* what a Stop does to the goroutines and the queued signals: the turns
\* whose entries are deleted are marked, and the signals that wait in a
\* queue for a deleted key are remembered
Cancelled(hit) ==
    [t \in TurnIds |->
        IF turn[t].pc # "none" /\ turn[t].key \in hit /\ sessions[turn[t].key] = t
        THEN [turn[t] EXCEPT !.cancelled = TRUE]
        ELSE turn[t]]

Dropped(hit) ==
    {pendingSpawns[q][k[3]] : q \in QueueIds, k \in hit} \ {None}

\* POST /api/rooms/{room}/spawn of the web process: Start with the empty
\* conv, 409 when busy, else the goroutine is launched and 202 returned.
handleLocalSpawn(room, sender) ==
    LET t == NextTurn
        key == sessionKey(room, sender, "")
        r == Start(sessions, key, t)
    IN  /\ IF r.ok
           THEN /\ t \in TurnIds
                /\ sessions' = r.sessions
                /\ turn' = [turn EXCEPT ![t] = NewTurn(key, None, "user", None, None)]
                /\ resp' = "spawning"
           ELSE /\ resp' = "conflict"
                /\ UNCHANGED <<sessions, turn>>
        /\ UNCHANGED <<pendingSpawns, call, hookStates, hookObj, hookFn, stale>>

\* POST /api/rooms/{room}/stop of the web process: Sessions().Stop, 404
\* when nothing was active, else 200.  The watcher's pendingSpawns is not
\* touched.
handleLocalStop(room, sender) ==
    LET r == Stop(sessions, room, sender)
    IN  /\ sessions' = r.sessions
        /\ turn' = Cancelled(r.hit)
        /\ resp' = IF r.found THEN "stopped" ELSE "not_found"
        /\ stale' = stale \cup Dropped(r.hit)
        /\ UNCHANGED <<pendingSpawns, call, hookStates, hookObj, hookFn>>

\* the main loop of runWatcherConn is one goroutine: it reads the next
\* frame after trySpawn returned
LoopIdle == \A s \in SigIds : call[s].pc # "queue"

(***************************************************************************)
(* The web process: one watcher connection of sender U, the spawn and stop *)
(* endpoints.  It has no room of its own: the hub's variables stay as      *)
(* constructed.                                                            *)
(***************************************************************************)
NextSess ==
    \/ \E r \in SessRooms, u \in SessSenders, v \in SessConvs :
          LoopIdle /\ watcherSpawn(r, u, v)
          /\ UNCHANGED <<roomVars, clientVars, bcast, obsVars, hubVars, spawnerVars>>
    \/ \E s \in SigIds : queueSpawn(s)
          /\ UNCHANGED <<roomVars, clientVars, bcast, obsVars, hubVars, spawnerVars>>
    \/ \E t \in TurnIds : spawnReturns(t)
          /\ UNCHANGED <<roomVars, clientVars, bcast, obsVars, hubVars, spawnerVars>>
    \/ \E t \in TurnIds : sessionEnd(t)
          /\ UNCHANGED <<roomVars, clientVars, bcast, obsVars, hubVars, spawnerVars>>
    \/ \E t \in TurnIds : takePending(t)
          /\ UNCHANGED <<roomVars, clientVars, bcast, obsVars, hubVars, spawnerVars>>
    \/ \E t \in TurnIds : replaySpawn(t)
          /\ UNCHANGED <<roomVars, clientVars, bcast, obsVars, hubVars, spawnerVars>>
    \/ \E t \in TurnIds : requeueSpawn(t)
          /\ UNCHANGED <<roomVars, clientVars, bcast, obsVars, hubVars, spawnerVars>>
    \/ \E r \in SessRooms, u \in SessSenders : handleLocalSpawn(r, u)
          /\ UNCHANGED <<roomVars, clientVars, bcast, obsVars, hubVars, spawnerVars>>
    \/ \E r \in SessRooms, u \in SessSenders : handleLocalStop(r, u)
          /\ UNCHANGED <<roomVars, clientVars, bcast, obsVars, hubVars, spawnerVars>>

InitSess == Init /\ maxHistory = DefaultMaxHistory

SpecSess == InitSess /\ [][NextSess]_vars

(***************************************************************************)
(* The stop workload: two users of one room spawn by request (conv_id "")  *)
(* and have signals for the thread t1; either may ask to stop.             *)
(***************************************************************************)
StopConvs == {"t1"}

NextStop ==
    \/ \E r \in SessRooms, u \in StopSenders, v \in StopConvs :
          LoopIdle /\ watcherSpawn(r, u, v)
          /\ UNCHANGED <<roomVars, clientVars, bcast, obsVars, hubVars, spawnerVars>>
    \/ \E s \in SigIds : queueSpawn(s)
          /\ UNCHANGED <<roomVars, clientVars, bcast, obsVars, hubVars, spawnerVars>>
    \/ \E t \in TurnIds : spawnReturns(t)
          /\ UNCHANGED <<roomVars, clientVars, bcast, obsVars, hubVars, spawnerVars>>
    \/ \E t \in TurnIds : sessionEnd(t)
          /\ UNCHANGED <<roomVars, clientVars, bcast, obsVars, hubVars, spawnerVars>>
    \/ \E t \in TurnIds : takePending(t)
          /\ UNCHANGED <<roomVars, clientVars, bcast, obsVars, hubVars, spawnerVars>>
    \/ \E t \in TurnIds : replaySpawn(t)
          /\ UNCHANGED <<roomVars, clientVars, bcast, obsVars, hubVars, spawnerVars>>
    \/ \E t \in TurnIds : requeueSpawn(t)
          /\ UNCHANGED <<roomVars, clientVars, bcast, obsVars, hubVars, spawnerVars>>
    \/ \E r \in SessRooms, u \in StopSenders : handleLocalSpawn(r, u)
          /\ UNCHANGED <<roomVars, clientVars, bcast, obsVars, hubVars, spawnerVars>>
    \/ \E r \in SessRooms, u \in StopSenders : handleLocalStop(r, u)
          /\ UNCHANGED <<roomVars, clientVars, bcast, obsVars, hubVars, spawnerVars>>

SpecStop == InitSess /\ [][NextStop]_vars

(***************************************************************************)
(* The hub in host mode (server.go): POST /api/rooms/{room}/spawn and      *)
(* /stop, and the hook that SpawnClaude registers.                         *)
(***************************************************************************)
\* Handlers.SpawnClaude: LoadOrStore of the hostHookState of the claude
\* name, RegisterSpawnHook of its trySpawn, Start with the empty conv (409
\* when busy), the "is thinking" system message, TrackParticipant, and the
\* goroutine is launched (202).
SpawnClaude(p, room, sender) ==
    LET n == claudeName(sender)
        g == IF hookStates[n] # None THEN hookStates[n] ELSE NextHookState
        t == NextTurn
        key == sessionKey(room, sender, "")
        r == Start(sessions, key, t)
    IN  /\ g \in HookStateIds
        /\ hookStates' = [hookStates EXCEPT ![n] = g]
        /\ hookObj' = IF hookStates[n] # None THEN hookObj
                      ELSE [hookObj EXCEPT ![g] =
                              [made |-> TRUE, room |-> room, sender |-> sender]]
        /\ spawnHooks' = IF room = RoomName THEN spawnHooks \cup {n} ELSE spawnHooks
        /\ hookFn' = [hookFn EXCEPT ![room][n] = g]
        /\ IF r.ok
           THEN /\ t \in TurnIds
                /\ sessions' = r.sessions
                /\ IF room = RoomName
                   THEN /\ AddMessageLocked(p, "system", "system", NoMetadata, None)
                        /\ participants' = TrackParticipant(participants, n, "claude", None)
                   ELSE UNCHANGED <<seq, messages, convParticipants, appended, bcast,
                                    participants>>
                /\ turn' = [turn EXCEPT ![t] = NewTurn(key, None, "host", None, None)]
                /\ resp' = "spawning"
           ELSE /\ resp' = "conflict"
                /\ UNCHANGED <<sessions, turn, seq, messages, convParticipants,
                               appended, bcast, participants>>
        /\ rooms' = GetOrCreateRoom(rooms, room).rooms
        /\ UNCHANGED <<maxHistory, clients, clientVars, wire, hookCalls, posts, got,
                       pendingSpawns, call, stale>>

\* Handlers.StopClaude: Sessions().Stop (404 when nothing was active), then
\* UnregisterSpawnHook, the "was stopped" system message and
\* hookStates.Delete (200).  The pendingSpawns of the hostHookState is not
\* touched, and the goroutines that run hold the state.
StopClaude(p, room, sender) ==
    LET n == claudeName(sender)
        r == Stop(sessions, room, sender)
    IN  /\ IF r.found
           THEN /\ sessions' = r.sessions
                /\ turn' = Cancelled(r.hit)
                /\ stale' = stale \cup Dropped(r.hit)
                /\ IF room \in rooms
                   THEN /\ spawnHooks' = IF room = RoomName THEN spawnHooks \ {n}
                                         ELSE spawnHooks
                        /\ hookFn' = [hookFn EXCEPT ![room][n] = None]
                   ELSE UNCHANGED <<spawnHooks, hookFn>>
                /\ IF room = RoomName /\ room \in rooms
                   THEN AddMessageLocked(p, "system", "system", NoMetadata, None)
                   ELSE UNCHANGED <<seq, messages, convParticipants, appended, bcast>>
                /\ hookStates' = [hookStates EXCEPT ![n] = None]
                /\ resp' = "stopped"
           ELSE /\ resp' = "not_found"
                /\ UNCHANGED <<sessions, turn, stale, spawnHooks, hookFn, hookStates,
                               seq, messages, convParticipants, appended, bcast>>
        /\ UNCHANGED <<maxHistory, rooms, clients, participants, clientVars, wire,
                       hookCalls, posts, got, pendingSpawns, hookObj, call>>

\* Runner.Spawn returns in the goroutine of SpawnClaude; an error is
\* posted as a system message.
claudeReturns(p, t, err) ==
    /\ turn[t].pc = "running"
    /\ turn[t].via = "host"
    /\ turn' = [turn EXCEPT ![t].pc = "untrack", ![t].failed = err]
    /\ IF err /\ turn[t].key[1] = RoomName
       THEN AddMessageLocked(p, "system", "system", NoMetadata, None)
       ELSE UNCHANGED <<seq, messages, convParticipants, appended, bcast>>
    /\ UNCHANGED <<maxHistory, rooms, clients, participants, spawnHooks, clientVars,
                   wire, hookCalls, posts, got, sessions, pendingSpawns, hookStates,
                   hookObj, hookFn, call, resp, stale>>

\* the deferred room.UntrackParticipant(claudeName) of that goroutine
untrackClaude(t) ==
    /\ turn[t].pc = "untrack"
    /\ participants' = IF turn[t].key[1] = RoomName
                       THEN UntrackParticipant(participants, claudeName(turn[t].key[2]))
                       ELSE participants
    /\ turn' = [turn EXCEPT ![t].pc = "end"]
    /\ UNCHANGED <<maxHistory, rooms, seq, messages, clients, convParticipants, spawnHooks,
                   clientVars, bcast, obsVars, sessions, pendingSpawns, hookStates,
                   hookObj, hookFn, call, resp, stale>>

\* No connection is open in this workload, so an AddMessage has nobody to
\* send to and returns at once; the hook is invoked for envelopes directed
\* to the claude name while it is registered, on the user-initiated thread
\* or on one conversation thread.
Returned == \A p \in Callers : ~bcast[p].active
HostConvs == {"", "t1"}

NextHost ==
    \/ \E p \in Callers, r \in SessRooms, u \in SessSenders :
          Returned /\ FreeCaller(p) /\ SpawnClaude(p, r, u)
          /\ UNCHANGED <<hubVars, spawnerVars>>
    \/ \E p \in Callers, r \in SessRooms, u \in SessSenders :
          Returned /\ FreeCaller(p) /\ StopClaude(p, r, u)
          /\ UNCHANGED <<hubVars, spawnerVars>>
    \/ \E n \in HookNames, v \in HostConvs : Returned /\ hookSpawn(n, v)
          /\ UNCHANGED <<roomVars, clientVars, bcast, obsVars, hubVars, spawnerVars>>
    \/ \E s \in SigIds : Returned /\ queueSpawn(s)
          /\ UNCHANGED <<roomVars, clientVars, bcast, obsVars, hubVars, spawnerVars>>
    \/ \E t \in TurnIds : Returned /\ spawnReturns(t)
          /\ UNCHANGED <<roomVars, clientVars, bcast, obsVars, hubVars, spawnerVars>>
    \/ \E p \in Callers, t \in TurnIds, err \in BOOLEAN :
          Returned /\ FreeCaller(p) /\ claudeReturns(p, t, err)
          /\ UNCHANGED <<hubVars, spawnerVars>>
    \/ \E t \in TurnIds : Returned /\ untrackClaude(t)
          /\ UNCHANGED <<hubVars, spawnerVars>>
    \/ \E t \in TurnIds : Returned /\ sessionEnd(t)
          /\ UNCHANGED <<roomVars, clientVars, bcast, obsVars, hubVars, spawnerVars>>
    \/ \E t \in TurnIds : Returned /\ takePending(t)
          /\ UNCHANGED <<roomVars, clientVars, bcast, obsVars, hubVars, spawnerVars>>
    \/ \E t \in TurnIds : Returned /\ replaySpawn(t)
          /\ UNCHANGED <<roomVars, clientVars, bcast, obsVars, hubVars, spawnerVars>>
    \/ \E t \in TurnIds : Returned /\ requeueSpawn(t)
          /\ UNCHANGED <<roomVars, clientVars, bcast, obsVars, hubVars, spawnerVars>>
    \/ \E p \in Callers : Return(p)
          /\ UNCHANGED <<sessVars, hubVars, spawnerVars>>

SpecHost == InitSess /\ [][NextHost]_vars

(***************************************************************************)
(* The failure workload: the user U spawns the co-resident agent H by      *)
(* request and the hook of H is invoked; the watcher of a second user V    *)
(* receives spawn frames; every turn may fail.  No conv_id is used.        *)
(***************************************************************************)
FailConvs == {""}
WatcherSenders == {"V"}

NextFail ==
    \/ \E p \in Callers, r \in SessRooms, u \in SessSenders :
          Returned /\ FreeCaller(p) /\ SpawnClaude(p, r, u)
          /\ UNCHANGED <<hubVars, spawnerVars>>
    \/ \E n \in HookNames, v \in FailConvs : Returned /\ hookSpawn(n, v)
          /\ UNCHANGED <<roomVars, clientVars, bcast, obsVars, hubVars, spawnerVars>>
    \/ \E r \in SessRooms, u \in WatcherSenders, v \in FailConvs :
          Returned /\ LoopIdle /\ watcherSpawn(r, u, v)
          /\ UNCHANGED <<roomVars, clientVars, bcast, obsVars, hubVars, spawnerVars>>
    \/ \E s \in SigIds : Returned /\ queueSpawn(s)
          /\ UNCHANGED <<roomVars, clientVars, bcast, obsVars, hubVars, spawnerVars>>
    \/ \E t \in TurnIds : Returned /\ spawnReturns(t)
          /\ UNCHANGED <<roomVars, clientVars, bcast, obsVars, hubVars, spawnerVars>>
    \/ \E t \in TurnIds : Returned /\ spawnFails(t)
          /\ UNCHANGED <<roomVars, clientVars, bcast, obsVars, hubVars, spawnerVars>>
    \/ \E p \in Callers, t \in TurnIds, err \in BOOLEAN :
          Returned /\ FreeCaller(p) /\ claudeReturns(p, t, err)
          /\ UNCHANGED <<hubVars, spawnerVars>>
    \/ \E t \in TurnIds : Returned /\ untrackClaude(t)
          /\ UNCHANGED <<hubVars, spawnerVars>>
    \/ \E t \in TurnIds : Returned /\ sessionEnd(t)
          /\ UNCHANGED <<roomVars, clientVars, bcast, obsVars, hubVars, spawnerVars>>
    \/ \E t \in TurnIds : Returned /\ takePending(t)
          /\ UNCHANGED <<roomVars, clientVars, bcast, obsVars, hubVars, spawnerVars>>
    \/ \E t \in TurnIds : Returned /\ replaySpawn(t)
          /\ UNCHANGED <<roomVars, clientVars, bcast, obsVars, hubVars, spawnerVars>>
    \/ \E t \in TurnIds : Returned /\ requeueSpawn(t)
          /\ UNCHANGED <<roomVars, clientVars, bcast, obsVars, hubVars, spawnerVars>>
    \/ \E p \in Callers : Return(p)
          /\ UNCHANGED <<sessVars, hubVars, spawnerVars>>

SpecFail == InitSess /\ [][NextFail]_vars

(***************************************************************************)
(* The hub workload: a hub without rooms; requests to the send endpoint,   *)
(* well-formed or not, of type "" or file, one at a time; the user A may   *)
(* open a connection.                                                      *)
(***************************************************************************)
HubClients == {2}
RoomNames == {"", RoomName}
SendRequests ==
    {SendRequest(FALSE, "", "", NoMetadata)}
        \cup {SendRequest(TRUE, u, t, NoMetadata) : u \in {"", "A"}, t \in {"", "file"}}

NextHub ==
    \/ \E p \in Callers, rn \in RoomNames, req \in SendRequests :
          /\ posts < MaxHubPosts /\ Returned /\ FreeCaller(p)
          /\ HandlersSendMessage(p, rn, req)
          /\ UNCHANGED <<hubVars, spawnerVars>>
    \/ \E p \in Callers, c \in HubClients : Broadcast(p, c)
          /\ UNCHANGED <<sessVars, hubVars, spawnerVars>>
    \/ \E p \in Callers : Return(p)
          /\ UNCHANGED <<sessVars, hubVars, spawnerVars>>
    \/ \E c \in HubClients : Quiet /\ ServeWSRegister(c)
          /\ UNCHANGED <<sessVars, hubVars, spawnerVars>>
    \/ \E p \in Callers, c \in HubClients : Returned /\ FreeCaller(p) /\ ServeWSJoin(p, c)
          /\ UNCHANGED <<sessVars, hubVars, spawnerVars>>
    \/ \E c \in HubClients : writeEnvelope(c)
          /\ UNCHANGED <<sessVars, hubVars, spawnerVars>>
    \/ \E c \in HubClients : fireHooks(c)
          /\ UNCHANGED <<sessVars, hubVars, spawnerVars>>

SpecHub == Init /\ [][NextHub]_vars

(***************************************************************************)
(* The query workload: a hub without rooms; a reader queries the messages  *)
(* and the participants of the room, with and without parameters that      *)
(* parse; the room comes to exist by a send request, by the user A opening *)
(* a connection, or by a spawn of the agent H (its turn does not return    *)
(* here); one request is handled at a time.                                *)
(***************************************************************************)
AfterParams == {NoParam, BadParam, IntParam(1)}
LimitParams == {NoParam, BadParam, IntParam(0), IntParam(1)}
QueryRequests == {SendRequest(TRUE, u, "", NoMetadata) : u \in {"", "A"}}

NextQuery ==
    \/ \E p \in Callers, rn \in RoomNames, req \in QueryRequests :
          /\ posts < MaxQueryPosts /\ Returned /\ FreeCaller(p)
          /\ HandlersSendMessage(p, rn, req)
          /\ UNCHANGED <<hubVars, spawnerVars>>
    \/ \E p \in Callers, c \in HubClients : Broadcast(p, c)
          /\ UNCHANGED <<sessVars, hubVars, spawnerVars>>
    \/ \E p \in Callers : Return(p)
          /\ UNCHANGED <<sessVars, hubVars, spawnerVars>>
    \/ \E c \in HubClients : Quiet /\ ServeWSRegister(c)
          /\ UNCHANGED <<sessVars, hubVars, spawnerVars>>
    \/ \E p \in Callers, c \in HubClients : Returned /\ FreeCaller(p) /\ ServeWSJoin(p, c)
          /\ UNCHANGED <<sessVars, hubVars, spawnerVars>>
    \/ \E c \in HubClients : writeEnvelope(c)
          /\ UNCHANGED <<sessVars, hubVars, spawnerVars>>
    \/ \E c \in HubClients : fireHooks(c)
          /\ UNCHANGED <<sessVars, hubVars, spawnerVars>>
    \/ \E p \in Callers, r \in SessRooms, u \in SessSenders :
          Returned /\ FreeCaller(p) /\ SpawnClaude(p, r, u)
          /\ UNCHANGED <<hubVars, spawnerVars>>
    \/ \E who \in Readers, rn \in RoomNames, a \in AfterParams, l \in LimitParams :
          Returned /\ HandlersGetMessages(who, rn, a, l)
          /\ UNCHANGED <<hubVars, spawnerVars>>
    \/ \E who \in Readers, rn \in RoomNames, n \in LimitParams :
          Returned /\ HandlersLatestMessages(who, rn, n)
          /\ UNCHANGED <<hubVars, spawnerVars>>
    \/ \E who \in Readers, rn \in RoomNames :
          Returned /\ HandlersListParticipants(who, rn)
          /\ UNCHANGED <<hubVars, spawnerVars>>

SpecQuery == Init /\ [][NextQuery]_vars

(***************************************************************************)
(* Observations                                                            *)
(***************************************************************************)
Iota(n) == [i \in 1..n |-> i]
IsEnvelopeFrame(f) == f.kind # "spawn"
IsSpawnFrame(f) == f.kind = "spawn"

\* the seqs of the envelopes Client.send has accepted, in the order accepted
Placed(c) ==
    [i \in 1..Len(SelectSeq(wire[c], IsEnvelopeFrame)) |->
        SelectSeq(wire[c], IsEnvelopeFrame)[i].seq] \o Seqs(send[c])

StrictlyIncreasing(q) == \A i, j \in 1..Len(q) : i < j => q[i] < q[j]

\* the spawn frames with trigger e enqueued on connection d so far
SpawnFrames(d, e) ==
    Len(SelectSeq(rawSend[d] \o wire[d],
                  LAMBDA f : IsSpawnFrame(f) /\ f.trigger = e.seq))

\* the invocations of the hook of n with trigger e so far
HookInvocations(n, e) ==
    Len(SelectSeq(hookCalls[n], LAMBDA t : t.trigger = e.seq))

AppendedEnvelopes == {appended[i] : i \in 1..Len(appended)}

\* section 4.5: the direct recipient and the thread members but the sender
Candidates(e) ==
    ({e.to} \cup (IF e.conv # "" THEN convParticipants[e.conv] ELSE {})) \ {e.sender}

EligibleDaemons(e) ==
    {n \in Candidates(e) : IsDaemon(n) /\ participants[n].client # None}

EligibleHooks(e) ==
    {n \in Candidates(e) : n \in spawnHooks /\ participants[n].client = None}

(***************************************************************************)
(* C1: the k-th append of a room receives seq = k (no reuse, no gap, also  *)
(* after truncation), and when N <= max_history envelopes were appended,   *)
(* LatestMessages(N) returns the seqs 1..N in increasing order.            *)
(***************************************************************************)
C1_SeqDense ==
    /\ seq = Len(appended)
    /\ \A k \in 1..Len(appended) : appended[k].seq = k
    /\ Len(appended) <= maxHistory =>
          Seqs(LatestMessages(Len(appended))) = Iota(Len(appended))

\* two callers are inside AddMessage and the log has been truncated
C1_Witness ==
    /\ \A p \in Callers : bcast[p].active
    /\ Len(appended) > maxHistory

\* concurrent writers appended N <= max_history envelopes and both returned
C1_WitnessLatest ==
    /\ posts = MaxLogPosts
    /\ \A p \in Callers : ~bcast[p].active
    /\ Len(appended) <= maxHistory
    /\ Len(LatestMessages(Len(appended))) > MaxLogPosts

(***************************************************************************)
(* C2: len(log) <= max_history always, and the log is the most recent      *)
(* min(seq_counter, max_history) envelopes appended.                       *)
(***************************************************************************)
C2_HistoryBound ==
    /\ Len(messages) <= maxHistory
    /\ messages = SubSeq(appended, Len(appended) - Min(seq, maxHistory) + 1,
                         Len(appended))

\* an append has cut the head of a full log
C2_Witness ==
    /\ Len(appended) > maxHistory
    /\ Len(messages) = maxHistory

(***************************************************************************)
(* C3: the envelopes placed on the out_envelopes queue of every client are *)
(* in strictly increasing seq order.                                       *)
(***************************************************************************)
C3_QueueOrder == \A c \in ClientIds : StrictlyIncreasing(Placed(c))

(***************************************************************************)
(* C4: for every appended envelope e that passes the directed filter and   *)
(* every eligible recipient n, exactly one spawn signal with trigger e is  *)
(* delivered to n: never more than one, and one once the room has drained. *)
(***************************************************************************)
C4_ExactlyOnce ==
    \A e \in AppendedEnvelopes :
        Directed(e) =>
            /\ \A n \in EligibleDaemons(e) :
                  /\ SpawnFrames(participants[n].client, e) <= 1
                  /\ Quiet => SpawnFrames(participants[n].client, e) = 1
            /\ \A n \in EligibleHooks(e) :
                  /\ HookInvocations(n, e) <= 1
                  /\ Quiet => HookInvocations(n, e) = 1

\* the connections that are daemons
DaemonClientIds ==
    {d \in ClientIds : ServeWSParams(d).mode = "daemon" /\ ServeWSParams(d).role = "daemon"}

(***************************************************************************)
(* C5: when a sender other than B appends an envelope with to = B and      *)
(* expecting_reply = "true" while the daemon B is connected, B's stream    *)
(* receives a spawn frame for it (at the latest when the room has          *)
(* drained); and no daemon that is neither `to` nor a thread member        *)
(* receives a spawn frame for it.                                          *)
(***************************************************************************)
C5_DirectedSpawn ==
    \A e \in AppendedEnvelopes, d \in DaemonClientIds :
        /\ ( /\ Directed(e)
             /\ e.to = ServeWSParams(d).sender
             /\ e.sender # e.to
             /\ cpc[d] = "open"
             /\ Quiet )
           => \E i \in 1..Len(wire[d]) :
                 IsSpawnFrame(wire[d][i]) /\ wire[d][i].trigger = e.seq
        /\ ( /\ e.to # ServeWSParams(d).sender
             /\ ServeWSParams(d).sender \notin AllParticipants(e) )
           => SpawnFrames(d, e) = 0

(***************************************************************************)
(* Observations of turns                                                   *)
(***************************************************************************)
SetMax(S) == CHOOSE x \in S : \A y \in S : y <= x

Running(t) == turn[t].pc = "running"

\* the signals whose Start failed against the entry of turn t and that were
\* then written to pendingSpawns
QueuedBehind(t) == {s \in SigIds : call[s].pc = "queued" /\ call[s].busy = t}

\* the turns started from the queue by the completion of turn t
ReplayedBy(t) == {u \in TurnIds : turn[u].via = "replay" /\ turn[u].parent = t}

\* the turns started from signal s
TurnsOf(s) == {u \in TurnIds : turn[u].pc # "none" /\ turn[u].sig = s}

NoStop == \A t \in TurnIds : ~turn[t].cancelled

\* nothing is running and no call is between two of its steps
Idle == LoopIdle /\ \A t \in TurnIds : turn[t].pc \in {"none", "done"}

(***************************************************************************)
(* C6: at any moment at most one turn (one execution of Runner.Spawn) is   *)
(* in progress for a given (room, sender, conv_id).                        *)
(***************************************************************************)
C6_OneTurnPerKey ==
    \A t, u \in TurnIds :
        (t # u /\ Running(t) /\ Running(u)) => turn[t].key # turn[u].key

(***************************************************************************)
(* C7: spawn signals that arrive one after the other for a key while a     *)
(* turn of that key is active start no turn and leave only the last of     *)
(* them in the pending slot; when the active turn has ended (no stop       *)
(* involved) its entry is gone and exactly one new turn was started, from  *)
(* that last signal; the earlier queued signals never run.                 *)
(***************************************************************************)
C7_LastSignalReplayed ==
    \A t \in TurnIds :
        (QueuedBehind(t) # {} /\ ~turn[t].cancelled) =>
            LET last == SetMax(QueuedBehind(t))
                key == turn[t].key
            IN  /\ \A s \in QueuedBehind(t) \ {last} : TurnsOf(s) = {}
                /\ (Running(t) /\ LoopIdle) => pendingSpawns[call[last].q][key[3]] = last
                /\ turn[t].pc = "done" =>
                      /\ sessions[key] # t
                      /\ Cardinality(ReplayedBy(t)) = 1
                      /\ \A u \in ReplayedBy(t) : turn[u].sig = last

(***************************************************************************)
(* C8: with no stop issued, a spawn signal that was queued is not left in  *)
(* the queue for ever: once every turn has terminated and every call has   *)
(* returned, each queued signal has either run or been overwritten by a    *)
(* newer one, so no pending slot is still occupied.                        *)
(***************************************************************************)
C8_NoSignalStuck ==
    (NoStop /\ Idle) =>
        \A q \in QueueIds, v \in SessConvs : pendingSpawns[q][v] = None

\* a stop of (room, sender) that finds active sessions answers ok and
\* leaves every key of (room, sender) free for Start
StopAnswersOk ==
    \A r \in SessRooms, u \in SessSenders :
        ( /\ handleLocalStop(r, u) \/ \E p \in Callers : StopClaude(p, r, u)
          /\ Stop(sessions, r, u).found )
        => /\ resp' = "stopped"
           /\ \A v \in SessConvs :
                 Start(sessions', sessionKey(r, u, v), NextTurn).ok

(***************************************************************************)
(* C9: a stop for (room, sender) while the sender has active sessions      *)
(* answers ok and leaves every key of (room, sender) free, so that a Start *)
(* for any of them succeeds; and no signal that was queued for a stopped   *)
(* key is ever started as a turn.                                          *)
(***************************************************************************)
C9_StopDropsPending ==
    /\ [][StopAnswersOk]_vars
    /\ [](\A s \in stale : TurnsOf(s) = {})

(***************************************************************************)
(* C10: conversation threads of one sender are independent.  A signal is   *)
(* refused by Start only when a turn of its own (room, sender, conv_id)    *)
(* holds the entry, so signals for two free threads both start a turn; and *)
(* the pending slot of a thread changes only in a step made for that       *)
(* thread.                                                                 *)
(***************************************************************************)
C10_ConvIndependent ==
    /\ [](\A s \in SigIds :
            call[s].pc # "none" =>
               IF call[s].busy = None
               THEN call[s].pc = "started"
               ELSE /\ call[s].pc \in {"queue", "queued"}
                    /\ turn[call[s].busy].key = call[s].key)
    /\ [][\A q \in QueueIds, v \in SessConvs :
            pendingSpawns'[q][v] # pendingSpawns[q][v] =>
               \/ \E s \in SigIds :
                     /\ call[s].pc = "queue" /\ call'[s].pc = "queued"
                     /\ call[s].q = q /\ call[s].key[3] = v
               \/ \E t \in TurnIds :
                     /\ turn[t].pc \in {"take", "requeue"} /\ turn'[t].pc # turn[t].pc
                     /\ turn[t].q = q /\ turn[t].key[3] = v]_vars

\* two threads of one sender are running turns started by their signals
\* while a signal waits behind one of them
C10_Witness ==
    \E t, u \in TurnIds :
        /\ Running(t) /\ Running(u)
        /\ turn[t].via = "signal" /\ turn[u].via = "signal"
        /\ turn[t].key[1] = turn[u].key[1] /\ turn[t].key[2] = turn[u].key[2]
        /\ turn[t].key[3] = "t1" /\ turn[u].key[3] = "t2"
        /\ pendingSpawns[turn[t].q]["t1"] # None
        /\ pendingSpawns[turn[t].q]["t2"] = None

(***************************************************************************)
(* C11: an envelope whose `to` is empty or whose expecting_reply is not    *)
(* exactly "true" (the key absent, "false", a message sent with            *)
(* done = true) never causes a spawn frame on any connection nor an        *)
(* invocation of any hook.                                                 *)
(***************************************************************************)
C11_NoSpawnUndirected ==
    \A e \in AppendedEnvelopes :
        (e.to = "" \/ e.er # "true") =>
            /\ \A d \in ClientIds : SpawnFrames(d, e) = 0
            /\ \A n \in HookNames : HookInvocations(n, e) = 0

\* the writer of A has dispatched an envelope sent to the connected daemon
\* B with expecting_reply = "false", and the room has drained
C11_Witness ==
    /\ Quiet
    /\ IsDaemon("B")
    /\ cpc[2] = "open"
    /\ \E e \in AppendedEnvelopes :
          /\ e.to = "B" /\ e.er = "false"
          /\ \E i \in 1..Len(wire[2]) :
                IsEnvelopeFrame(wire[2][i]) /\ wire[2][i].seq = e.seq

\* the writer of a connection has dispatched an envelope sent to the
\* registered hook H without an expecting_reply key
C11_WitnessHook ==
    /\ Quiet
    /\ "H" \in spawnHooks
    /\ \E c \in ClientIds, e \in AppendedEnvelopes :
          /\ e.to = "H" /\ e.er = ""
          /\ \E i \in 1..Len(wire[c]) :
                IsEnvelopeFrame(wire[c][i]) /\ wire[c][i].seq = e.seq

(***************************************************************************)
(* C12: the daemons B and C are connected; A posts with to = B,            *)
(* conv_id = g1, expecting_reply = "true", later B posts a reply with      *)
(* to = A, conv_id = g1, expecting_reply = "true".  The dispatch of the    *)
(* reply delivers a spawn frame to C and none to B, and the participants   *)
(* of the frame are exactly {A, B, C}.                                     *)
(***************************************************************************)
C12_GroupFanOut ==
    \A e1, e2 \in AppendedEnvelopes :
        ( /\ e1.sender = "A" /\ e1.to = "B" /\ e1.conv = "g1" /\ e1.er = "true"
          /\ e2.sender = "B" /\ e2.to = "A" /\ e2.conv = "g1" /\ e2.er = "true"
          /\ e1.seq < e2.seq
          /\ cpc[1] = "open" /\ cpc[3] = "open"
          /\ Quiet )
        => /\ \E i \in 1..Len(wire[3]) :
                 /\ IsSpawnFrame(wire[3][i])
                 /\ wire[3][i].trigger = e2.seq
                 /\ wire[3][i].participants = {"A", "B", "C"}
           /\ SpawnFrames(1, e2) = 0

(***************************************************************************)
(* C13: for one envelope, no recipient name is selected both as a daemon   *)
(* target (a spawn frame is enqueued on its connection) and as a hook      *)
(* target (its hook is invoked), even when the daemon of the recipient     *)
(* connects or disconnects between the two selections.                     *)
(***************************************************************************)
C13_OneRoute ==
    \A e \in AppendedEnvelopes, n \in HookNames, d \in ClientIds :
        ServeWSParams(d).sender = n =>
            ~(SpawnFrames(d, e) > 0 /\ HookInvocations(n, e) > 0)

(***************************************************************************)
(* C15: when nothing is in flight, participants[name].connected is true    *)
(* exactly when at least one client with that sender is registered in the  *)
(* clients of the room, also with several connections under one name.      *)
(***************************************************************************)
C15_ConnectedIffClient ==
    Quiet =>
        \A n \in Names :
            (participants[n].known /\ participants[n].connected)
                <=> (\E c \in clients : ServeWSParams(c).sender = n)

(***************************************************************************)
(* C14: after an append with conv_id c, the sender and the `to` (when not  *)
(* empty) of the envelope are in conv_participants[c]; the set of a thread *)
(* only grows; an append without conv_id leaves every set unchanged.       *)
(***************************************************************************)
C14_ThreadGrows ==
    /\ [](\A e \in AppendedEnvelopes :
             e.conv # "" =>
                 /\ e.sender \in convParticipants[e.conv]
                 /\ e.to # "" => e.to \in convParticipants[e.conv])
    /\ [][ /\ \A v \in ConvIds : convParticipants[v] \subseteq convParticipants'[v]
           /\ ( /\ Len(appended') = Len(appended) + 1
                /\ appended'[Len(appended')].conv = "" )
              => convParticipants' = convParticipants ]_vars

\* a thread has members and a later append without conv_id left them
C14_Witness ==
    \E i, j \in 1..Len(appended) :
        /\ i < j
        /\ appended[i].conv = "g1"
        /\ appended[j].conv = "" /\ appended[j].sender # "system"
        /\ convParticipants["g1"] = {"A", "B"}

\* two senders have appended on one thread
C14_WitnessTwo ==
    \E i, j \in 1..Len(appended) :
        /\ i < j
        /\ appended[i].conv = "g1" /\ appended[i].sender = "A"
        /\ appended[j].conv = "g1" /\ appended[j].sender = "B"
        /\ convParticipants["g1"] = {"A", "B"}

(***************************************************************************)
(* C16: AddMessage never waits on a client queue.  A call that is sending  *)
(* can always take its next step, whatever the queues hold; a Send to a    *)
(* full out_envelopes queue, and a sendRaw to a full out_raw queue, leave  *)
(* that queue as it was and touch no other queue; the append has updated   *)
(* seq and the log before any Send, and the Send to a client with room     *)
(* still enqueues the envelope.                                            *)
(***************************************************************************)
C16_NeverBlocks ==
    /\ [](\A c \in ClientIds :
             Len(send[c]) <= SendCap /\ Len(rawSend[c]) <= RawSendCap)
    /\ [](\A p \in Callers :
             bcast[p].active =>
                 /\ bcast[p].env.seq <= seq
                 /\ bcast[p].env \in AppendedEnvelopes
                 /\ \A c \in bcast[p].todo : ENABLED Broadcast(p, c)
                 /\ bcast[p].todo = {} => ENABLED Return(p))
    /\ [][\A p \in Callers, c \in ClientIds :
             ( /\ bcast[p].active
               /\ c \in bcast[p].todo
               /\ bcast'[p].todo = bcast[p].todo \ {c} )
             => /\ send'[c] = IF Len(send[c]) < SendCap
                              THEN Append(send[c], bcast[p].env)
                              ELSE send[c]
                /\ \A d \in ClientIds \ {c} : send'[d] = send[d]
                /\ seq' = seq /\ messages' = messages]_vars
    /\ [][\A c, d \in ClientIds :
             ( /\ send[c] # <<>>
               /\ send'[c] = Tail(send[c])
               /\ Len(rawSend[d]) = RawSendCap )
             => rawSend'[d] = rawSend[d] /\ Len(wire'[c]) = Len(wire[c]) + 1]_vars

\* a posted envelope was dropped for B, whose queue was full, and enqueued
\* for A; its AddMessage has returned and the log holds it
C16_Witness ==
    \E e \in AppendedEnvelopes :
        /\ e.sender = "A"
        /\ \A p \in Callers : bcast[p].active => bcast[p].env # e
        /\ cpc[1] = "open" /\ cpc[2] = "open"
        /\ \A i \in 1..Len(Placed(1)) : Placed(1)[i] # e.seq
        /\ \E i \in 1..Len(Placed(2)) : Placed(2)[i] = e.seq
        /\ \E i \in 1..Len(messages) : messages[i] = e
        /\ seq >= e.seq

\* the writer of A has dispatched an envelope directed to the connected
\* daemon B whose out_raw queue was full: no spawn frame for it exists
C16_WitnessRaw ==
    \E e \in AppendedEnvelopes :
        /\ e.sender = "A"
        /\ cpc[1] = "open" /\ cpc[2] = "open"
        /\ \E i \in 1..Len(wire[2]) :
              IsEnvelopeFrame(wire[2][i]) /\ wire[2][i].seq = e.seq
        /\ SpawnFrames(1, e) = 0
        /\ Len(rawSend[1]) = RawSendCap

(***************************************************************************)
(* C17: an envelope with private = "true" and to = X is observable only by *)
(* its sender and X: it is never enqueued on the stream of a client of     *)
(* another name, and never returned by MessagesAfter or LatestMessages to  *)
(* another caller.                                                         *)
(***************************************************************************)
C17_WhisperPrivate ==
    \A e \in AppendedEnvelopes :
        (e.private = "true" /\ e.to # "") =>
            /\ \A c \in ClientIds :
                  (\E i \in 1..Len(Placed(c)) : Placed(c)[i] = e.seq)
                      => ServeWSParams(c).sender \in {e.sender, e.to}
            /\ (\E i \in 1..Len(got.out) : got.out[i] = e)
                  => got.who \in {e.sender, e.to}

\* the retained envelopes whose seq is above `after`, in log order
Above(after) == SelectSeq(messages, LAMBDA m : m.seq > after)

\* the first `limit` of a list when limit > 0, else the list
FirstOf(list, limit) ==
    IF limit > 0 /\ Len(list) > limit THEN SubSeq(list, 1, limit) ELSE list

(***************************************************************************)
(* C18: MessagesAfter(after, limit) returns exactly the retained envelopes *)
(* with seq > after, in increasing seq order, cut to the first `limit`     *)
(* when limit > 0 and uncut when limit <= 0; the empty list when the log   *)
(* is empty or holds no seq above `after`; for every `after`, negative     *)
(* values and values below the oldest retained seq included.               *)
(***************************************************************************)
C18_MessagesAfter ==
    /\ \A after \in Afters, limit \in Limits :
          LET r == MessagesAfter(after, limit)
          IN  /\ r = FirstOf(Above(after), limit)
              /\ StrictlyIncreasing(Seqs(r))
              /\ \A i \in 1..Len(r) : r[i].seq > after
              /\ limit > 0 => Len(r) <= limit
              /\ limit <= 0 => Len(r) = Len(Above(after))
              /\ (messages = <<>> \/ messages[Len(messages)].seq <= after) => r = <<>>
    /\ (got.op = "after" /\ got.at = seq)
          => got.out = FirstOf(Above(got.after), got.limit)

\* a reader asked for everything after a seq that the truncated log no
\* longer holds, and nothing was appended since
C18_Witness ==
    /\ got.op = "after"
    /\ got.at = seq
    /\ Len(appended) > maxHistory
    /\ messages # <<>>
    /\ got.after >= 0
    /\ got.after + 1 < messages[1].seq
    /\ got.limit <= 0
    /\ got.out = messages

\* a reader got the first `limit` of a longer list
C18_WitnessCut ==
    /\ got.op = "after"
    /\ got.at = seq
    /\ got.limit > 0
    /\ Len(got.out) = got.limit
    /\ Len(Above(got.after)) > got.limit
    /\ got.after < 0

\* the seq of the last envelope of a non-empty list
LastSeq(list) == list[Len(list)].seq

(***************************************************************************)
(* C19: catch-up is idempotent.  When MessagesAfter(k, unlimited) returns  *)
(* a non-empty list whose last seq is s, MessagesAfter(s, unlimited) with  *)
(* no append in between returns the empty list; and MessagesAfter(current  *)
(* max seq, any limit) is empty.                                           *)
(***************************************************************************)
C19_CatchUpIdempotent ==
    /\ [](/\ \A k \in Afters, l \in {m \in Limits : m <= 0} :
                LET r == MessagesAfter(k, l)
                IN  r # <<>> => MessagesAfter(LastSeq(r), l) = <<>>
          /\ \A l \in Limits : MessagesAfter(seq, l) = <<>>)
    /\ [][( /\ got.op = "after" /\ got.limit <= 0 /\ got.out # <<>>
            /\ got.at = seq
            /\ seq' = seq
            /\ got' # got
            /\ got'.op = "after" /\ got'.limit <= 0
            /\ got'.after = LastSeq(got.out) )
          => got'.out = <<>>]_vars

\* a reader that had caught up with a non-empty log asked again from the
\* last seq it holds, and nothing was appended since
C19_Witness ==
    /\ got.op = "after"
    /\ got.limit <= 0
    /\ got.at = seq
    /\ messages # <<>>
    /\ got.after = LastSeq(messages)
    /\ got.out = <<>>
    /\ Len(appended) > 1

\* the last k envelopes of the log, in append order
LastOf(k) == [i \in 1..k |-> messages[Len(messages) - k + i]]

(***************************************************************************)
(* C20: LatestMessages(n) returns the last min(n, len(log)) retained       *)
(* envelopes in append order; the empty list for n <= 0 or an empty log;   *)
(* the whole log for n > len(log); and the list returned is a copy that    *)
(* later appends do not change.                                            *)
(***************************************************************************)
C20_LatestMessages ==
    /\ [](/\ \A n \in Limits :
                LET r == LatestMessages(n)
                IN  /\ r = LastOf(IF n <= 0 THEN 0 ELSE Min(n, Len(messages)))
                    /\ (n <= 0 \/ messages = <<>>) => r = <<>>
                    /\ n > Len(messages) => r = messages
          /\ (got.op = "latest" /\ got.at = seq)
                => got.out = LastOf(IF got.limit <= 0 THEN 0
                                    ELSE Min(got.limit, Len(messages))))
    /\ [][(seq' # seq \/ messages' # messages) => got' = got]_vars

\* a reader asked for more than the log held and got the whole log; an
\* append that came later changed the log and not the list
C20_Witness ==
    /\ got.op = "latest"
    /\ got.limit > Len(got.out)
    /\ Len(got.out) >= 2
    /\ seq > got.at
    /\ messages # got.out

(***************************************************************************)
(* C21: a send request that fails validation (a body that does not decode, *)
(* an empty sender) is answered 400 and leaves the hub and the room        *)
(* unchanged: no room is created, no seq is consumed, nothing is logged or *)
(* enqueued; a valid request with an empty type is answered 201 and        *)
(* appended with type text.                                                *)
(***************************************************************************)
C21_RejectedSendNoEffect ==
    /\ [](\A i \in 1..Len(appended) : appended[i].type # "" /\ appended[i].sender # "")
    /\ [][\A p \in Callers, rn \in RoomNames, req \in SendRequests :
             HandlersSendMessage(p, rn, req) =>
                 IF rn = "" \/ ~req.decodes \/ req.sender = ""
                 THEN /\ resp' = "bad_request"
                      /\ rooms' = rooms
                      /\ seq' = seq /\ messages' = messages
                      /\ convParticipants' = convParticipants
                      /\ send' = send /\ rawSend' = rawSend
                      /\ bcast' = bcast /\ appended' = appended /\ wire' = wire
                 ELSE /\ resp' = "created"
                      /\ Len(appended') = Len(appended) + 1
                      /\ appended'[Len(appended')].sender = req.sender
                      /\ appended'[Len(appended')].type =
                            (IF req.type = "" THEN "text" ELSE req.type)]_vars

\* a request was rejected on a hub that has no room, and none was created
C21_Witness ==
    /\ resp = "bad_request"
    /\ rooms = {}
    /\ seq = 0 /\ messages = <<>> /\ appended = <<>>

\* a request without a type (the workload sends "" or file) is in the log
\* as text, and a later request was rejected
C21_WitnessText ==
    /\ resp = "bad_request"
    /\ \E i \in 1..Len(messages) : messages[i].type = "text" /\ messages[i].sender = "A"

C22_WitnessAfter ==
    /\ rooms = {}
    /\ resp = "ok" /\ got.op = "after" /\ got.out = <<>>

\* the latest messages of a room the hub does not have were asked for
C22_WitnessLatest ==
    /\ rooms = {}
    /\ resp = "ok" /\ got.op = "latest" /\ got.out = <<>>

\* a room that a spawn made, queried for its participants
C22_WitnessSpawned ==
    /\ rooms = {RoomName} /\ clients = {} /\ posts = 0
    /\ got.op = "participants" /\ Len(got.out) = 1

(***************************************************************************)
(* C23: every frame written to a connection opened without a mode query is *)
(* a bare envelope, never a spawn event and never an {event:"message"}     *)
(* wrapper, whatever role its query names; every envelope written to a     *)
(* connection opened with mode=daemon is wrapped as {event:"message"}.     *)
(***************************************************************************)
C23_LegacyBareOnly ==
    \A c \in ClientIds : \A i \in 1..Len(wire[c]) :
        IF ServeWSParams(c).mode = "daemon"
        THEN wire[c][i].kind \in {"message", "spawn"}
        ELSE wire[c][i].kind = "envelope"

(***************************************************************************)
(* C24: SessionManager.Start on a key that has an entry returns the busy   *)
(* error and leaves the sessions map, the entry's cancel handle included,  *)
(* as it was; on a key without an entry it installs one entry, for that    *)
(* key only; Start calls for one key run one after the other under the     *)
(* mutex, so of two of them the first succeeds and the second is refused.  *)
(***************************************************************************)
C24_StartAtomic ==
    /\ [](\A k \in Keys, t \in TurnIds :
            LET r == Start(sessions, k, t)
            IN  IF sessions[k] # None
                THEN ~r.ok /\ r.sessions = sessions
                ELSE /\ r.ok
                     /\ r.sessions[k] = t
                     /\ \A j \in Keys \ {k} : r.sessions[j] = sessions[j]
                     /\ \A u \in TurnIds :
                           /\ ~Start(r.sessions, k, u).ok
                           /\ Start(r.sessions, k, u).sessions = r.sessions)
    /\ [][\A s \in SigIds :
             (call[s].pc = "none" /\ call'[s].pc # "none") =>
                 LET k == call'[s].key
                 IN  IF sessions[k] = None
                     THEN /\ call'[s].pc = "started"
                          /\ sessions'[k] # None
                          /\ \A j \in Keys \ {k} : sessions'[j] = sessions[j]
                     ELSE /\ call'[s].pc = "queue"
                          /\ sessions' = sessions]_vars

\* of two signals for one key the first started a turn and the second was
\* refused; the entry is still the one the first installed
C24_Witness ==
    \E s, r \in SigIds :
        /\ call[s].pc = "started" /\ call[r].pc \in {"queue", "queued"}
        /\ call[s].key = call[r].key
        /\ sessions[call[r].key] # None
        /\ sessions[call[r].key] = call[r].busy
        /\ turn[call[r].busy].sig = s

(***************************************************************************)
(* C25: SessionManager.Stop(room, sender), when the map has an entry of    *)
(* that room and sender, cancels and removes every such entry, whatever    *)
(* its conv_id, returns ok, and leaves the entries of every other (room,   *)
(* sender) pair as they were; when it has none, it returns the not-found   *)
(* error and leaves the map as it was.                                     *)
(***************************************************************************)
C25_StopAllThreads ==
    /\ [](\A r \in SessRooms, u \in StopSenders :
            LET res == Stop(sessions, r, u)
            IN  IF \E k \in Keys : k[1] = r /\ k[2] = u /\ sessions[k] # None
                THEN /\ res.found
                     /\ \A k \in Keys :
                           res.sessions[k] =
                              IF k[1] = r /\ k[2] = u THEN None ELSE sessions[k]
                ELSE ~res.found /\ res.sessions = sessions)
    /\ [][\A r \in SessRooms, u \in StopSenders :
             handleLocalStop(r, u) =>
                 IF \E k \in Keys : k[1] = r /\ k[2] = u /\ sessions[k] # None
                 THEN /\ resp' = "stopped"
                      /\ \A k \in Keys :
                            sessions'[k] =
                               IF k[1] = r /\ k[2] = u THEN None ELSE sessions[k]
                      /\ \A t \in TurnIds :
                            turn'[t].cancelled =
                               \/ turn[t].cancelled
                               \/ /\ turn[t].pc # "none"
                                  /\ turn[t].key[1] = r /\ turn[t].key[2] = u
                                  /\ sessions[turn[t].key] = t
                 ELSE /\ resp' = "not_found"
                      /\ sessions' = sessions
                      /\ turn' = turn]_vars

\* U was stopped while it held the entries of two threads: both turns are
\* cancelled and no entry of U is left, and the entry of V is still there
C25_Witness ==
    /\ resp = "stopped"
    /\ \E t, u \in TurnIds :
          /\ turn[t].key = sessionKey("R", "U", "") /\ turn[t].cancelled
          /\ turn[u].key = sessionKey("R", "U", "t1") /\ turn[u].cancelled
    /\ \A k \in Keys : k[2] = "U" => sessions[k] = None
    /\ \E k \in Keys : k[2] = "V" /\ sessions[k] # None

\* a stop found no entry of its sender while the other user had one
C25_WitnessNotFound ==
    /\ resp = "not_found"
    /\ \E k \in Keys : sessions[k] # None

\* the system envelopes in the room
SystemEnvelopes == {i \in 1..Len(appended) : appended[i].type = "system"}
\* the turns started by a spawn request: each posted its "is thinking"
HostTurns == {t \in TurnIds : turn[t].pc # "none" /\ turn[t].via = "host"}
\* the turns whose Runner.Spawn returned an error
FailedTurns == {t \in TurnIds : turn[t].failed}

(***************************************************************************)
(* C26: when Runner.Spawn returns an error, whether the turn was started   *)
(* by a spawn request, by the hook or by the watcher, a system envelope    *)
(* announcing the failure is appended to the room (one for each failed     *)
(* turn, besides the "is thinking" of each requested turn), the session    *)
(* entry of the turn is removed, and a signal queued behind the turn is    *)
(* replayed.                                                               *)
(***************************************************************************)
C26_FailureAnnounced ==
    /\ Cardinality(SystemEnvelopes) >= Cardinality(HostTurns) + Cardinality(FailedTurns)
    /\ \A t \in FailedTurns :
          turn[t].pc = "done" =>
              /\ sessions[turn[t].key] # t
              /\ (QueuedBehind(t) # {} /\ Idle) => ReplayedBy(t) # {}

\* the last frame on a queue that grew by one is a spawn frame for e
Enqueued(before, after, e) ==
    /\ Len(after) = Len(before) + 1
    /\ SubSeq(after, 1, Len(before)) = before
    /\ after[Len(after)].kind = "spawn"
    /\ after[Len(after)].trigger = e.seq

C30_NoSelfSpawn ==
    [][\A c \in ClientIds : writeEnvelope(c) => rawSend'[c] = rawSend[c]]_vars

\* the writer of B's connection has just dispatched an envelope directed to
\* B, whose daemon connection it is, and its own raw queue is empty
C30_Witness ==
    /\ wpc[1] = "hooks"
    /\ wenv[1].to = "B" /\ wenv[1].er = "true"
    /\ participants["B"].connected /\ participants["B"].role = "daemon"
    /\ participants["B"].client = 1
    /\ rawSend[1] = <<>>

(***************************************************************************)
(* C28: when a writer runs the hook selection for an envelope e that       *)
(* passes the directed filter, the hook of a name n is invoked exactly     *)
(* when n is a candidate (e.to always, and with a conv_id every member of  *)
(* conv_participants[e.conv_id] other than e.sender), n is a key of        *)
(* spawn_hooks, and the participant record of n holds no daemon            *)
(* connection, whatever connection first registered the name.              *)
(***************************************************************************)
C28_HookTargets ==
    [][\A c \in ClientIds :
          (fireHooks(c) /\ wenv[c].to # "" /\ wenv[c].er = "true") =>
              LET e == wenv[c]
                  cand == {e.to} \cup (IF e.conv # ""
                                       THEN convParticipants[e.conv] \ {e.sender}
                                       ELSE {})
              IN  \A n \in HookNames :
                     IF n \in cand /\ n \in spawnHooks /\ participants[n].client = None
                     THEN /\ Len(hookCalls'[n]) = Len(hookCalls[n]) + 1
                          /\ hookCalls'[n][Len(hookCalls'[n])].trigger = e.seq
                     ELSE hookCalls'[n] = hookCalls[n]]_vars

\* the list that the signals for e carry
ThreadMembers(e) == IF e.conv # "" THEN convParticipants[e.conv] ELSE {}

(***************************************************************************)
(* C29: the participants list of every spawn signal for an envelope e, on  *)
(* a raw queue or handed to a hook, is conv_participants[e.conv_id] as it  *)
(* is when the signal is made, e.sender and e.to included, when e has a    *)
(* conv_id, and is empty when it has none.                                 *)
(***************************************************************************)
C29_SignalParticipants ==
    [][\A c \in ClientIds :
          /\ writeEnvelope(c) =>
                \A d \in ClientIds :
                    Len(rawSend'[d]) > Len(rawSend[d]) =>
                        LET e == Head(send[c])
                            f == rawSend'[d][Len(rawSend'[d])]
                        IN  /\ f.trigger = e.seq
                            /\ f.participants = ThreadMembers(e)
                            /\ e.conv # "" => {e.sender, e.to} \subseteq f.participants
          /\ fireHooks(c) =>
                \A n \in HookNames :
                    Len(hookCalls'[n]) > Len(hookCalls[n]) =>
                        LET e == wenv[c]
                            f == hookCalls'[n][Len(hookCalls'[n])]
                        IN  /\ f.trigger = e.seq
                            /\ f.participants = ThreadMembers(e)
                            /\ e.conv # "" => {e.sender, e.to} \subseteq f.participants]_vars

\* the hook of H was invoked for an envelope of the thread g1 with the two
\* members of the thread, the sender A among them
C29_Witness ==
    \E i \in 1..Len(hookCalls["H"]) :
        /\ hookCalls["H"][i].participants = {"A", "H"}
        /\ \E e \in AppendedEnvelopes :
              e.seq = hookCalls["H"][i].trigger /\ e.sender = "A" /\ e.conv = "g1"

\* the watcher of H was sent a spawn frame for an envelope outside a thread:
\* it carries no list
C29_WitnessFrame ==
    \E i \in 1..Len(wire[4]) :
        IsSpawnFrame(wire[4][i]) /\ wire[4][i].participants = {}

\* the watcher of H was sent a spawn frame for an envelope of the thread g1
C29_WitnessThreadFrame ==
    \E i \in 1..Len(wire[4]) :
        IsSpawnFrame(wire[4][i]) /\ wire[4][i].participants = {"A", "H"}

(***************************************************************************)
(* C31: no spawn signal with trigger e is delivered to a daemon connection *)
(* or to a spawn hook registered under the name e.sender, also when the    *)
(* `to` of e is its sender, and whatever connection does the dispatch.     *)
(***************************************************************************)
C31_NoSpawnToSender ==
    \A e \in AppendedEnvelopes :
        /\ \A d \in ClientIds :
              (ServeWSParams(d).sender = e.sender /\ ServeWSParams(d).role = "daemon")
                  => SpawnFrames(d, e) = 0
        /\ \A n \in HookNames : n = e.sender => HookInvocations(n, e) = 0

\* the frames w written to connection c hold the envelope with that seq
WrittenIn(w, c, s) ==
    \E i \in 1..Len(w[c]) : IsEnvelopeFrame(w[c][i]) /\ w[c][i].seq = s
Written(c, s) == WrittenIn(wire, c, s)

\* a spawn signal with trigger e has been emitted, to a connection or a hook
Emitted(e) ==
    \/ \E d \in ClientIds : SpawnFrames(d, e) > 0
    \/ \E n \in HookNames : HookInvocations(n, e) > 0

\* a step that emits a spawn signal is a step of a writer that has written
\* the trigger to its own connection; a writer whose write fails stops and
\* emits nothing
OwnWriteFirst ==
    /\ \A d \in ClientIds :
          Len(rawSend'[d]) > Len(rawSend[d]) =>
              \E c \in ClientIds :
                  /\ writeEnvelope(c)
                  /\ rawSend'[d][Len(rawSend'[d])].trigger = Head(send[c]).seq
                  /\ WrittenIn(wire', c, Head(send[c]).seq)
    /\ \A n \in HookNames :
          Len(hookCalls'[n]) > Len(hookCalls[n]) =>
              \E c \in ClientIds :
                  /\ fireHooks(c)
                  /\ hookCalls'[n][Len(hookCalls'[n])].trigger = wenv[c].seq
                  /\ Written(c, wenv[c].seq)
    /\ \A c \in ClientIds :
          writeFail(c) =>
              /\ wpc'[c] = "off"
              /\ rawSend' = rawSend /\ hookCalls' = hookCalls

(***************************************************************************)
(* C32: a writer emits the spawn signals for an envelope e only after it   *)
(* has written e to its own connection; a writer whose write fails         *)
(* terminates and emits no signal; and so, once any spawn signal for e has *)
(* been emitted, the open connection of the sender of e has been written   *)
(* e.                                                                      *)
(***************************************************************************)
C32_SignalAfterWrite ==
    /\ [][OwnWriteFirst]_vars
    /\ [](\A e \in AppendedEnvelopes, s \in ClientIds :
            ( /\ Emitted(e)
              /\ ServeWSParams(s).sender = e.sender
              /\ cpc[s] = "open" )
            => Written(s, e.seq))

(***************************************************************************)
(* C33: the context of every spawn frame a writer enqueues is the last     *)
(* min(30, len(log)) envelopes of the log, in seq order, and holds the     *)
(* trigger of the frame, whatever was appended between the append of the   *)
(* trigger and its dispatch.  (The context handed to a hook is read the    *)
(* same way, websocket.go:160; the model records it for frames.)           *)
(***************************************************************************)
C33_ContextHoldsTrigger ==
    [][\A c \in ClientIds :
          writeEnvelope(c) =>
              \A d \in ClientIds :
                  Len(rawSend'[d]) > Len(rawSend[d]) =>
                      LET e == Head(send[c])
                          f == rawSend'[d][Len(rawSend'[d])]
                      IN  /\ f.trigger = e.seq
                          /\ f.context = Seqs(LastOf(Min(ContextLen, Len(messages))))
                          /\ StrictlyIncreasing(f.context)
                          /\ \E i \in 1..Len(f.context) : f.context[i] = e.seq]_vars

(***************************************************************************)
(* Hub.GetOrCreateRoom and Hub.GetRoom step by step, part_010:24-48.  A    *)
(* call of GetOrCreateRoom reads the map under the read lock and returns   *)
(* the Room it finds; when it finds none it takes the write lock, looks    *)
(* again, and makes and stores a Room only when there still is none.       *)
(* Other calls run between the two locks.  A Room is named by its index in *)
(* newRooms.  (The handlers of the other workloads make the call in one    *)
(* step, with the operator GetOrCreateRoom.)                               *)
(***************************************************************************)
NextLookup == Cardinality({g \in LookupIds : lookup[g].pc # "none"}) + 1

\* a second look that sees nothing
NoDoubleCheck(hr, name) == None

\* part_010:35: the second look, under the write lock
DoubleCheck(hr, name) == hr[name]

\* part_010:25-30: the look under the read lock
GetOrCreateRoomRead(g, name) ==
    /\ g = NextLookup
    /\ g \in LookupIds
    /\ lookup' = [lookup EXCEPT ![g] =
                    IF hubRooms[name] # None
                    THEN [pc |-> "done", op |-> "GetOrCreateRoom", name |-> name,
                          ret |-> hubRooms[name], locked |-> FALSE]
                    ELSE [pc |-> "lock", op |-> "GetOrCreateRoom", name |-> name,
                          ret |-> None, locked |-> TRUE]]
    /\ UNCHANGED <<roomVars, clientVars, bcast, obsVars, sessVars, hubRooms,
                   newRooms, spawnerVars>>

\* part_010:32-40: under the write lock
GetOrCreateRoomLocked(g) ==
    LET name == lookup[g].name
        r == DoubleCheck(hubRooms, name)
    IN  /\ lookup[g].pc = "lock"
        /\ IF r # None
           THEN /\ lookup' = [lookup EXCEPT ![g].pc = "done", ![g].ret = r]
                /\ UNCHANGED <<hubRooms, newRooms, rooms>>
           ELSE /\ newRooms' = Append(newRooms, name)
                /\ hubRooms' = [hubRooms EXCEPT ![name] = Len(newRooms) + 1]
                /\ rooms' = GetOrCreateRoom(rooms, name).rooms
                /\ lookup' = [lookup EXCEPT ![g].pc = "done",
                                            ![g].ret = Len(newRooms) + 1]
        /\ UNCHANGED <<maxHistory, seq, messages, clients, participants,
                       convParticipants, spawnHooks, clientVars, bcast, obsVars,
                       sessVars, spawnerVars>>

\* part_010:44-48: the Room stored under the name, or nil
HubGetRoom(g, name) ==
    /\ g = NextLookup
    /\ g \in LookupIds
    /\ lookup' = [lookup EXCEPT ![g] =
                    [pc |-> "done", op |-> "GetRoom", name |-> name,
                     ret |-> hubRooms[name], locked |-> FALSE]]
    /\ UNCHANGED <<roomVars, clientVars, bcast, obsVars, sessVars, hubRooms,
                   newRooms, spawnerVars>>

(***************************************************************************)
(* The lookup workload: handlers call GetOrCreateRoom and GetRoom for two  *)
(* room names, at any moment.                                              *)
(***************************************************************************)
NextRooms ==
    \/ \E g \in LookupIds, n \in HubNames : GetOrCreateRoomRead(g, n)
    \/ \E g \in LookupIds : GetOrCreateRoomLocked(g)
    \/ \E g \in LookupIds, n \in HubNames : HubGetRoom(g, n)

SpecRooms == Init /\ [][NextRooms]_vars

\* the Rooms NewRoom has made for a name
RoomsMadeFor(name) == {i \in 1..Len(newRooms) : newRooms[i] = name}

(***************************************************************************)
(* C34: for every room name the hub makes at most one Room: all the calls  *)
(* of GetOrCreateRoom for a name, one after the other or at the same time, *)
(* return the same Room; GetRoom makes no Room and stores none; and the    *)
(* Room stored under a name is never removed or replaced.                  *)
(***************************************************************************)
C34_OneRoomPerName ==
    /\ [](\A n \in HubNames :
            /\ Cardinality(RoomsMadeFor(n)) <= 1
            /\ hubRooms[n] # None => hubRooms[n] \in RoomsMadeFor(n)
            /\ \A g, h \in LookupIds :
                  ( /\ lookup[g].pc = "done" /\ lookup[g].op = "GetOrCreateRoom"
                    /\ lookup[h].pc = "done" /\ lookup[h].op = "GetOrCreateRoom"
                    /\ lookup[g].name = n /\ lookup[h].name = n )
                  => /\ lookup[g].ret # None
                     /\ lookup[g].ret = lookup[h].ret)
    /\ [][ /\ \A n \in HubNames : hubRooms[n] # None => hubRooms'[n] = hubRooms[n]
           /\ \A g \in LookupIds, n \in HubNames :
                 HubGetRoom(g, n) =>
                     /\ hubRooms' = hubRooms /\ newRooms' = newRooms
                     /\ lookup'[g].ret = hubRooms[n] ]_vars

\* two calls for one name both found no Room under the read lock and both
\* went on to the write lock; both have returned, with the one Room made
C34_Witness ==
    /\ lookup[1].op = "GetOrCreateRoom" /\ lookup[2].op = "GetOrCreateRoom"
    /\ lookup[1].name = "R" /\ lookup[2].name = "R"
    /\ lookup[1].pc = "done" /\ lookup[2].pc = "done"
    /\ lookup[1].locked /\ lookup[2].locked
    /\ Len(newRooms) = 1
    /\ lookup[1].ret = 1 /\ lookup[2].ret = 1

\* GetRoom was asked for a name the hub has no Room for and returned nil;
\* a call of GetOrCreateRoom that came later made the Room
C34_WitnessGetRoom ==
    \E g, h \in LookupIds :
        /\ g < h
        /\ lookup[g].op = "GetRoom" /\ lookup[g].ret = None
        /\ lookup[h].op = "GetOrCreateRoom" /\ lookup[h].pc = "done"
        /\ lookup[h].name = lookup[g].name

(***************************************************************************)
(* C35: in every reachable state participants[name].daemon_client is set   *)
(* only if the role of the record is daemon and the connection it holds is *)
(* a registered connection of that name opened with role daemon; a first   *)
(* registration or a re-registration with another role leaves none set.    *)
(***************************************************************************)
C35_DaemonClientOnlyDaemon ==
    \A n \in Names :
        participants[n].client # None =>
            /\ participants[n].role = "daemon"
            /\ participants[n].client \in clients
            /\ ServeWSParams(participants[n].client).sender = n
            /\ ServeWSParams(participants[n].client).role = "daemon"

(***************************************************************************)
(* The teardown workload: A's browser, and a watcher (role daemon) and a   *)
(* browser (role user) under the name H, connect; A posts to H over HTTP   *)
(* at any moment; reads and writes fail at any moment.  A read on a        *)
(* connection that its writer has closed fails at once, so the teardown of *)
(* such a connection is not postponed for ever.                            *)
(***************************************************************************)
TearClients == {2, 4, 7}

NextTear ==
    \/ \E p \in Callers :
          /\ MayPost(MaxTearPosts) /\ FreeCaller(p)
          /\ SendMessage(p, "A", Metadata("H", "", "true", ""))
          /\ UNCHANGED <<sessVars, hubVars, spawnerVars>>
    \/ \E p \in Callers, c \in TearClients : Broadcast(p, c)
          /\ UNCHANGED <<sessVars, hubVars, spawnerVars>>
    \/ \E p \in Callers : Return(p)
          /\ UNCHANGED <<sessVars, hubVars, spawnerVars>>
    \/ \E c \in TearClients : Setup /\ InOrderOf(TearClients, c) /\ ServeWSRegister(c)
          /\ UNCHANGED <<sessVars, hubVars, spawnerVars>>
    \/ \E p \in Callers, c \in TearClients : FreeCaller(p) /\ ServeWSJoin(p, c)
          /\ UNCHANGED <<sessVars, hubVars, spawnerVars>>
    \/ \E c \in TearClients : Disconnect(c)
          /\ UNCHANGED <<sessVars, hubVars, spawnerVars>>
    \/ \E c \in TearClients : writeEnvelope(c)
          /\ UNCHANGED <<sessVars, hubVars, spawnerVars>>
    \/ \E c \in TearClients : fireHooks(c)
          /\ UNCHANGED <<sessVars, hubVars, spawnerVars>>
    \/ \E c \in TearClients : writeRaw(c)
          /\ UNCHANGED <<sessVars, hubVars, spawnerVars>>
    \/ \E c \in TearClients : writeError(c)
          /\ UNCHANGED <<sessVars, hubVars, spawnerVars>>
    \/ \E c \in TearClients : writeFail(c)
          /\ UNCHANGED <<sessVars, hubVars, spawnerVars>>

\* the teardown of a connection whose writer closed it
ReadFails(c) ==
    cpc[c] = "broken" /\ Disconnect(c) /\ UNCHANGED <<sessVars, hubVars, spawnerVars>>

SpecTear ==
    Init /\ [][NextTear]_vars /\ \A c \in TearClients : WF_vars(ReadFails(c))

\* the teardown of c leaves the other connections as they were: their
\* queues, their registration, and the participant records that the
\* delivery to them goes by
OthersUnaffected(c) ==
    \A d \in ClientIds \ {c} :
        /\ send'[d] = send[d] /\ rawSend'[d] = rawSend[d]
        /\ cpc'[d] = cpc[d] /\ wpc'[d] = wpc[d]
        /\ (d \in clients) = (d \in clients')
        /\ d \in clients =>
              participants'[ServeWSParams(d).sender] = participants[ServeWSParams(d).sender]

(***************************************************************************)
(* C36: when a read or a write on a client's connection fails, the client  *)
(* is eventually removed from room.clients and its participant record is   *)
(* kept with connected = false; from then on no envelope is enqueued to    *)
(* it; and the queues, the registration and the delivery of every other    *)
(* client are as they were.                                                *)
(***************************************************************************)
C36_TeardownIsolated ==
    /\ \A c \in TearClients : (cpc[c] = "broken") ~> (c \notin clients)
    /\ [][\A c \in TearClients :
             /\ Disconnect(c) =>
                   /\ c \notin clients'
                   /\ participants'[ServeWSParams(c).sender].known
                   /\ ~participants'[ServeWSParams(c).sender].connected
                   /\ OthersUnaffected(c)
             /\ writeError(c) => OthersUnaffected(c)
             /\ cpc[c] = "closed" =>
                   /\ cpc'[c] = "closed" /\ c \notin clients'
                   /\ Len(send'[c]) <= Len(send[c])
                   /\ Len(rawSend'[c]) <= Len(rawSend[c])]_vars

\* the signal s has been accepted: its trySpawn started a turn for it or
\* stored it in pendingSpawns
Accepted(s) == call[s].pc \in {"started", "queued"}

(***************************************************************************)
(* C37: a newer spawn signal obsoletes an older one for the same key: once *)
(* a signal for a key has been started as a turn or stored in pending, no  *)
(* signal for that key that arrived earlier starts a turn afterwards (the  *)
(* signals are numbered in order of arrival).                              *)
(***************************************************************************)
C37_NewerObsoletesOlder ==
    [][\A u \in TurnIds :
          (turn[u].pc = "none" /\ turn'[u].pc # "none" /\ turn'[u].sig # None) =>
              ~\E s \in SigIds : /\ s > turn'[u].sig
                                 /\ Accepted(s)
                                 /\ call[s].key = turn'[u].key]_vars

(***************************************************************************)
(* C38: the End of a turn's completion path removes only the session entry *)
(* that the turn's own Start installed, never the entry of a later Start   *)
(* for the same key; so the key of a running turn that was not stopped     *)
(* always has a session entry.                                             *)
(***************************************************************************)
C38_EndRemovesOwnEntry ==
    /\ [][\A t \in TurnIds :
             (turn[t].pc = "end" /\ turn'[t].pc # "end") =>
                 \A k \in Keys :
                     (sessions[k] # None /\ sessions'[k] = None) => sessions[k] = t]_vars
    /\ [](\A t \in TurnIds :
             (turn[t].pc = "running" /\ ~turn[t].cancelled) =>
                 sessions[turn[t].key] # None)

(***************************************************************************)
(* The two-room workload of the hub in host mode: U asks for a spawn in    *)
(* room R and in room Q; the hook of U's agent H is invoked in either     *)
(* room for envelopes of the thread t1.                                    *)
(***************************************************************************)
MultiConvs == {"t1"}

NextMulti ==
    \/ \E p \in Callers, r \in HostRooms, u \in SessSenders :
          Returned /\ FreeCaller(p) /\ SpawnClaude(p, r, u)
          /\ UNCHANGED <<hubVars, spawnerVars>>
    \/ \E r \in HostRooms, n \in HookNames, v \in MultiConvs :
          Returned /\ roomHookSpawn(r, n, v)
          /\ UNCHANGED <<roomVars, clientVars, bcast, obsVars, hubVars, spawnerVars>>
    \/ \E s \in SigIds : Returned /\ queueSpawn(s)
          /\ UNCHANGED <<roomVars, clientVars, bcast, obsVars, hubVars, spawnerVars>>
    \/ \E t \in TurnIds : Returned /\ spawnReturns(t)
          /\ UNCHANGED <<roomVars, clientVars, bcast, obsVars, hubVars, spawnerVars>>
    \/ \E p \in Callers, t \in TurnIds, err \in BOOLEAN :
          Returned /\ FreeCaller(p) /\ claudeReturns(p, t, err)
          /\ UNCHANGED <<hubVars, spawnerVars>>
    \/ \E t \in TurnIds : Returned /\ untrackClaude(t)
          /\ UNCHANGED <<hubVars, spawnerVars>>
    \/ \E t \in TurnIds : Returned /\ sessionEnd(t)
          /\ UNCHANGED <<roomVars, clientVars, bcast, obsVars, hubVars, spawnerVars>>
    \/ \E t \in TurnIds : Returned /\ takePending(t)
          /\ UNCHANGED <<roomVars, clientVars, bcast, obsVars, hubVars, spawnerVars>>
    \/ \E t \in TurnIds : Returned /\ replaySpawn(t)
          /\ UNCHANGED <<roomVars, clientVars, bcast, obsVars, hubVars, spawnerVars>>
    \/ \E t \in TurnIds : Returned /\ requeueSpawn(t)
          /\ UNCHANGED <<roomVars, clientVars, bcast, obsVars, hubVars, spawnerVars>>
    \/ \E p \in Callers : Return(p)
          /\ UNCHANGED <<sessVars, hubVars, spawnerVars>>

SpecMulti == InitSess /\ [][NextMulti]_vars

\* the sender whose SpawnClaude registers the hook of the name n
SpawnerOf(n) == CHOOSE u \in SessSenders : claudeName(u) = n

(***************************************************************************)
(* C39: every turn started by the host-mode hook that SpawnClaude          *)
(* registered in room R for sender S uses the session key (R, S, conv_id)  *)
(* and launches the agent into room R, also when S has earlier requested a *)
(* spawn in another room: the trySpawn call of a hook invoked in a room    *)
(* runs Start for that room and the hook's sender, and the turn it starts  *)
(* or replays later has that key.                                          *)
(***************************************************************************)
C39_HookKeyIsItsRoom ==
    [][\A r \in HostRooms, n \in HookNames, v \in MultiConvs :
          roomHookSpawn(r, n, v) =>
              call'[NextSignal].key = sessionKey(r, SpawnerOf(n), v)]_vars

(***************************************************************************)
(* The agent daemon (daemon/daemon.go, daemon/spawner.go): Run makes one   *)
(* Spawner from the --max-concurrent flag and launches a goroutine around  *)
(* Spawner.Spawn for every spawn event it reads.  The semaphore is a       *)
(* channel of capacity maxConcurrent: `sem` counts the tokens in it.       *)
(***************************************************************************)
\* the values of the flag: negative, zero, and the positive ones
CfgConcurrent == -1..MaxCfgConcurrent

\* NewSpawner: a capacity of zero or less becomes 1
NewSpawner(cfg) == IF cfg <= 0 THEN 1 ELSE cfg

\* the next goroutine, in order of launch
NextSpawn == Cardinality({i \in SpawnIds : spawn[i].pc # "none"}) + 1

\* daemon.Run up to its event loop: the Spawner is constructed
daemonRun(cfg) ==
    /\ maxConcurrent = 0
    /\ flagConcurrent' = cfg
    /\ maxConcurrent' = NewSpawner(cfg)
    /\ UNCHANGED <<sem, spawn>>

\* the event loop reads a spawn event: `go func() { spawner.Spawn(...) }()`
daemonSpawn ==
    /\ maxConcurrent # 0
    /\ NextSpawn \in SpawnIds
    /\ spawn' = [spawn EXCEPT ![NextSpawn] = [pc |-> "acquire", err |-> FALSE]]
    /\ UNCHANGED <<flagConcurrent, maxConcurrent, sem>>

\* a Spawn that takes its token whether or not the channel has room
spawnAcquireNoWait(i) ==
    /\ spawn[i].pc = "acquire"
    /\ sem' = sem + 1
    /\ spawn' = [spawn EXCEPT ![i].pc = "config"]
    /\ UNCHANGED <<flagConcurrent, maxConcurrent>>

\* `s.sem <- struct{}{}`: the send goes through when the channel has room,
\* and blocks until then
spawnAcquire(i) ==
    /\ spawn[i].pc = "acquire"
    /\ sem < maxConcurrent
    /\ sem' = sem + 1
    /\ spawn' = [spawn EXCEPT ![i].pc = "config"]
    /\ UNCHANGED <<flagConcurrent, maxConcurrent>>

\* writeMCPConfig returns: on an error Spawn returns it, else the agent
\* process is started (cmd.Run)
writeMCPConfig(i, ok) ==
    /\ spawn[i].pc = "config"
    /\ spawn' = [spawn EXCEPT ![i] = IF ok THEN [pc |-> "run", err |-> FALSE]
                                          ELSE [pc |-> "release", err |-> TRUE]]
    /\ UNCHANGED <<flagConcurrent, maxConcurrent, sem>>

\* cmd.Run returns: the agent process has exited, with or without an error
cmdRun(i, ok) ==
    /\ spawn[i].pc = "run"
    /\ spawn' = [spawn EXCEPT ![i] = [pc |-> "release", err |-> ~ok]]
    /\ UNCHANGED <<flagConcurrent, maxConcurrent, sem>>

\* the deferred `<-s.sem` as Spawn returns
spawnRelease(i) ==
    /\ spawn[i].pc = "release"
    /\ sem' = sem - 1
    /\ spawn' = [spawn EXCEPT ![i].pc = "done"]
    /\ UNCHANGED <<flagConcurrent, maxConcurrent>>

NextSpawner ==
    \/ \E cfg \in CfgConcurrent : daemonRun(cfg)
          /\ UNCHANGED <<roomVars, clientVars, bcast, obsVars, sessVars, hubVars>>
    \/ daemonSpawn
          /\ UNCHANGED <<roomVars, clientVars, bcast, obsVars, sessVars, hubVars>>
    \/ \E i \in SpawnIds : spawnAcquire(i)
          /\ UNCHANGED <<roomVars, clientVars, bcast, obsVars, sessVars, hubVars>>
    \/ \E i \in SpawnIds, ok \in BOOLEAN : writeMCPConfig(i, ok)
          /\ UNCHANGED <<roomVars, clientVars, bcast, obsVars, sessVars, hubVars>>
    \/ \E i \in SpawnIds, ok \in BOOLEAN : cmdRun(i, ok)
          /\ UNCHANGED <<roomVars, clientVars, bcast, obsVars, sessVars, hubVars>>
    \/ \E i \in SpawnIds : spawnRelease(i)
          /\ UNCHANGED <<roomVars, clientVars, bcast, obsVars, sessVars, hubVars>>

\* a goroutine blocked on the send proceeds when the channel has room
Acquires(i) ==
    spawnAcquire(i) /\ UNCHANGED <<roomVars, clientVars, bcast, obsVars, sessVars, hubVars>>

SpecSpawner ==
    Init /\ [][NextSpawner]_vars /\ \A i \in SpawnIds : WF_vars(Acquires(i))

\* the goroutines whose agent process runs, and those that hold a token
AgentsRunning == {i \in SpawnIds : spawn[i].pc = "run"}
TokenHolders == {i \in SpawnIds : spawn[i].pc \in {"config", "run", "release"}}

(***************************************************************************)
(* C40: under one Spawner at most max-concurrent agent processes run at a  *)
(* time (1 when the flag is 0 or negative); the tokens in the semaphore    *)
(* are those of the Spawn calls that have acquired and not returned, so    *)
(* every return, success or error, gives back exactly its own slot; a      *)
(* request that finds all slots taken stays waiting (it is not dropped),   *)
(* and a free slot is not left idle while a request waits.                 *)
(***************************************************************************)
C40_SpawnerSlots ==
    /\ [](/\ Cardinality(AgentsRunning) <= (IF flagConcurrent <= 0 THEN 1 ELSE flagConcurrent)
          /\ sem = Cardinality(TokenHolders)
          /\ sem <= maxConcurrent)
    /\ [][\A i \in SpawnIds :
             /\ spawn[i].pc = "acquire" => spawn'[i].pc \in {"acquire", "config"}
             /\ (spawn[i].pc = "release" /\ spawn'[i].pc = "done") => sem' = sem - 1
             /\ spawn[i].pc = "done" => spawn'[i] = spawn[i]]_vars
    /\ \A i \in SpawnIds :
          (spawn[i].pc = "acquire" /\ sem < maxConcurrent)
              ~> (spawn[i].pc # "acquire" \/ sem = maxConcurrent)

\* the flag is 0, the one slot is taken by a running agent, a second
\* request waits, and an earlier Spawn has returned an error
C40_Witness ==
    /\ flagConcurrent = 0
    /\ sem = 1
    /\ \E i, j, k \in SpawnIds :
          /\ spawn[i].pc = "done" /\ spawn[i].err
          /\ spawn[j].pc = "run"
          /\ spawn[k].pc = "acquire"

\* a request that waited for a slot runs after the slot was released
C40_WitnessWaited ==
    /\ flagConcurrent = MaxCfgConcurrent
    /\ \E i \in SpawnIds :
          /\ spawn[i].pc = "run"
          /\ Cardinality({j \in SpawnIds : j < i /\ spawn[j].pc = "done"}) >= 1
          /\ Cardinality({j \in SpawnIds : j < i /\ spawn[j].pc = "run"}) = MaxCfgConcurrent - 1

====
